---- MODULE Spec2Model ----
(***************************************************************************)
(* KYC verification lifecycle of StellarSwipe-Backends (src/kyc).          *)
(*                                                                         *)
(* The store (kycRepo) is shared by concurrently running request handlers. *)
(* A handler is an async function: between two awaited repository calls    *)
(* other handlers run.  Each handler is therefore a sequence of steps, one  *)
(* per awaited repository read or write; the synchronous code after an     *)
(* await belongs to the same step.  Audit writes and event emission are     *)
(* read by no handler, so they are folded into the step they follow.       *)
(***************************************************************************)
EXTENDS Integers, Sequences, FiniteSets, TLC

\* ---- bounds of the model ------------------------------------------------
MaxRecords == 2      \* records ever created (ids are never reused)
MaxCalls   == 2      \* handlers in flight at the same time
MaxTicks   == 2      \* clock advances
NumUsers   == 1

\* ---- program constants --------------------------------------------------
NONE == 0
BASIC == 1
ENHANCED == 2
VERIFICATION_TTL == 365        \* days (VERIFICATION_TTL_MS / 86400000)
Null == -1                     \* a null column / undefined value

KycLevel == {NONE, BASIC, ENHANCED}
KycStatus == {"pending", "under_review", "approved", "rejected", "expired",
              "requires_action"}
KycProvider == {"persona", "onfido"}
CanonicalStatus == {"approved", "declined", "needs_review", "pending"}

Users == 1..NumUsers
Calls == 1..MaxCalls
Ids   == 1..MaxRecords

LEVEL_PREREQUISITES(level) == IF level = ENHANCED THEN BASIC ELSE Null

VARIABLES
  kycRepo,    \* id -> KycVerification row (the kyc_verifications table)
  nextId,     \* next primary key
  sessions,   \* provider side: sequence of sessions created, index = inquiry id
  now,        \* the clock (days)
  ticks,      \* number of clock advances so far
  calls,      \* call slot -> the handler running in it and its local variables
  parallel,   \* how many handlers the scenario lets be in flight at once
  contestRepository, \* id -> Contest row (the contests table)
  contestCalls,      \* call slot -> the finalizeContest handler running in it
  out         \* what the step just taken returned, audited and emitted

vars == <<kycRepo, nextId, sessions, now, ticks, calls, parallel,
          contestRepository, contestCalls, out>>

\* ---- the store ----------------------------------------------------------
\* The columns a handler reads from a row it has loaded
NoVerification ==
  [id |-> 0, userId |-> 0, level |-> NONE, status |-> "none", inquiryId |-> Null]

Loaded(row) ==
  [id |-> row.id, userId |-> row.userId, level |-> row.level,
   status |-> row.status, inquiryId |-> row.inquiryId]

\* kycRepo.create + save: column defaults of the entity.  A session token is
\* "null" or "token"; which token a provider issued is not told apart.
\* These are the columns some handler reads back; rejectionReason, which none
\* reads, is followed where it is written (out.written) and not kept here.
NewVerification(id, userId, level, provider, attemptCount) ==
  [id |-> id, userId |-> userId, level |-> level, status |-> "pending",
   provider |-> provider, inquiryId |-> Null, sessionToken |-> "null",
   approvedAt |-> Null, expiresAt |-> Null, attemptCount |-> attemptCount]

\* The properties of partial that an update writes: a property whose value is
\* undefined (updates.status after a switch that matched no case) is skipped
Written(partial) ==
  {f \in DOMAIN partial : ~(f = "status" /\ partial[f] = "undefined")}

\* Repository.update(id, partial): rows that do not exist are not an error;
\* of partial, the columns kept in the model are stored
RepoUpdate(repo, id, partial) ==
  IF id \in DOMAIN repo
    THEN [repo EXCEPT ![id] =
            [f \in DOMAIN repo[id] |->
               IF f \in Written(partial) THEN partial[f] ELSE repo[id][f]]]
    ELSE repo

RepoDelete(repo, id) == [i \in (DOMAIN repo) \ {id} |-> repo[i]]

RepoSave(repo, row) == [i \in (DOMAIN repo) \cup {row.id} |->
                          IF i = row.id THEN row ELSE repo[i]]

\* Repository.find({where: {userId, level, status}}): the matching rows
Find(repo, userId, level, status) ==
  {i \in DOMAIN repo : /\ repo[i].userId = userId
                       /\ repo[i].level = level
                       /\ repo[i].status = status}

\* getApprovedVerification: findOne({userId, level, status: APPROVED});
\* the set of rows findOne may return (no ORDER BY), empty = null
getApprovedVerification(repo, userId, level) ==
  Find(repo, userId, level, "approved")

\* getAttemptCount: count({userId, level})
getAttemptCount(repo, userId, level) ==
  Cardinality({i \in DOMAIN repo : repo[i].userId = userId /\ repo[i].level = level})

\* ---- call slots and outputs ---------------------------------------------
Idle ==
  [op |-> "idle", pc |-> "idle", userId |-> 0, level |-> NONE,
   provider |-> "none", verification |-> NoVerification, attempt |-> 0,
   created |-> 0, status |-> "none", reasons |-> <<>>, batch |-> {}, at |-> 0]

NoResponse == [verificationRecordId |-> 0, inquiryId |-> Null]

\* No kycRepo.update of lifecycle columns in the step
NoUpdates == [status |-> "none"]

\* The arguments of a request (a query's amount and what its collaborators
\* held when it ran, a webhook's signature header and correlation id)
NoAsk == [requestedAmountUsd |-> 0, ledgerUsageUsd |-> 0]

\* A step that returns nothing to a caller and writes no audit entry or event
Quiet ==
  [op |-> "none", result |-> "none", userId |-> 0, level |-> NONE,
   verificationId |-> 0, response |-> NoResponse, written |-> NoUpdates,
   asked |-> NoAsk, audited |-> <<>>, auditLost |-> FALSE, emitted |-> <<>>]

AuditEntry(action, verificationId, details) ==
  [action |-> action, verificationId |-> verificationId, details |-> details]

\* lines 594-614: audit() saves the entry and swallows a failure of the save;
\* the entries that reach the audit log
Audit(entries, auditOk) == IF auditOk THEN entries ELSE <<>>

\* A request is served by the lowest free slot (the slots are interchangeable)
Free(c) ==
  /\ c <= parallel
  /\ calls[c].op = "idle"
  /\ \A d \in Calls : d < c => calls[d].op # "idle"

\* No finalizeContest handler in the slot
NoContest ==
  [status |-> "none", startTime |-> 0, endTime |-> 0, minSignals |-> 0,
   winners |-> <<>>]
NoFinalize == [pc |-> "idle", contestId |-> 0, contest |-> NoContest, at |-> 0]

\* ---- startKyc -----------------------------------------------------------
LevelRefused_Never(level) == FALSE

\* line 71: level 0 is refused
LevelRefused(level) == level = NONE

\* lines 75-87: the prerequisite check
PrereqMet(repo, userId, level) ==
  \/ LEVEL_PREREQUISITES(level) = Null
  \/ getApprovedVerification(repo, userId, LEVEL_PREREQUISITES(level)) # {}

\* line 98: dto.provider ?? KycProvider.PERSONA
EffectiveProvider(p) == IF p = "undefined" THEN "persona" ELSE p

\* The rows findOne({userId, level, status: PENDING}) may return
PendingCandidates(repo, userId, level) ==
  LET m == Find(repo, userId, level, "pending")
  IN IF m = {} THEN {NoVerification} ELSE {Loaded(repo[i]) : i \in m}

\* lines 93-96: existing?.inquiryId decides between resume and create
ResumesExisting(existing) == existing.inquiryId # Null

StartOut(c, result) ==
  [Quiet EXCEPT !.op = "startKyc", !.result = result,
                !.userId = c.userId, !.level = c.level]

\* lines 66-87: validation and the prerequisite read
StartKyc(c, userId, level, dtoProvider) ==
  /\ Free(c)
  /\ LET base == [Idle EXCEPT !.op = "startKyc", !.userId = userId,
                              !.level = level,
                              !.provider = EffectiveProvider(dtoProvider)]
     IN IF LevelRefused(level)
          THEN /\ out' = StartOut(base, "BadRequest: level 0")
               /\ calls' = calls
        ELSE IF ~PrereqMet(kycRepo, userId, level)
          THEN /\ out' = StartOut(base, "BadRequest: prerequisite")
               /\ calls' = calls
        ELSE /\ out' = Quiet
             /\ calls' = [calls EXCEPT ![c] = [base EXCEPT !.pc = "lookup"]]
  /\ UNCHANGED <<kycRepo, nextId, sessions, now, ticks, parallel, contestRepository, contestCalls>>

\* lines 89-96: the read of an existing PENDING row
StartKycLookup(c) ==
  /\ calls[c].op = "startKyc" /\ calls[c].pc = "lookup"
  /\ \E existing \in PendingCandidates(kycRepo, calls[c].userId, calls[c].level) :
       calls' = [calls EXCEPT ![c] =
         IF ResumesExisting(existing)
           THEN [calls[c] EXCEPT !.pc = "resume", !.verification = existing]
           ELSE [calls[c] EXCEPT !.pc = "count"]]
  /\ out' = Quiet
  /\ UNCHANGED <<kycRepo, nextId, sessions, now, ticks, parallel, contestRepository, contestCalls>>

\* line 101: the count of earlier rows
StartKycCount(c) ==
  /\ calls[c].op = "startKyc" /\ calls[c].pc = "count"
  /\ calls' = [calls EXCEPT ![c] =
       [calls[c] EXCEPT !.pc = "save",
          !.attempt = getAttemptCount(kycRepo, calls[c].userId, calls[c].level)]]
  /\ out' = Quiet
  /\ UNCHANGED <<kycRepo, nextId, sessions, now, ticks, parallel, contestRepository, contestCalls>>

\* lines 102-110: the insert of the PENDING row
StartKycSave(c) ==
  /\ calls[c].op = "startKyc" /\ calls[c].pc = "save"
  /\ nextId <= MaxRecords
  /\ kycRepo' = RepoSave(kycRepo,
        NewVerification(nextId, calls[c].userId, calls[c].level,
                        calls[c].provider, calls[c].attempt + 1))
  /\ nextId' = nextId + 1
  /\ calls' = [calls EXCEPT ![c] =
        [calls[c] EXCEPT !.pc = "session", !.created = nextId]]
  /\ out' = Quiet
  /\ UNCHANGED <<sessions, now, ticks, parallel, contestRepository, contestCalls>>

\* The provider side of createInquiry / createApplicantSession: a new session,
\* whose inquiry id (workflow run id) is its index in sessions
NewSession(c) ==
  [userId |-> c.userId, level |-> c.level, provider |-> c.provider,
   attemptCount |-> c.attempt + 1]

RolledBack_OnAudit(providerOk, dbOk, auditOk) ==
  ~providerOk \/ ~dbOk \/ ~auditOk

\* line 168: the catch block deletes the row for every error of the try block;
\* a failed audit save is none, audit() has swallowed it
RolledBack(providerOk, dbOk, auditOk) == ~providerOk \/ ~dbOk

\* lines 112-170: provider session, update of the row, audit, event, or the
\* catch block.  providerOk: the provider call answered 2xx; dbOk: the
\* kycRepo.update that stores the handles resolved; auditOk: the save of the
\* audit entry resolved.
StartKycSession(c, providerOk, dbOk, auditOk) ==
  /\ calls[c].op = "startKyc" /\ calls[c].pc = "session"
  /\ LET id == calls[c].created
         inq == Len(sessions) + 1
     IN /\ sessions' = IF providerOk THEN Append(sessions, NewSession(calls[c]))
                                     ELSE sessions
        /\ IF RolledBack(providerOk, dbOk, auditOk)
             THEN /\ kycRepo' = RepoDelete(kycRepo, id)
                  /\ out' = [StartOut(calls[c],
                               IF providerOk THEN "PersistenceError"
                                             ELSE "ProviderError")
                               EXCEPT !.verificationId = id,
                                      !.auditLost =
                                        (providerOk /\ dbOk /\ ~auditOk)]
             ELSE /\ kycRepo' = RepoUpdate(kycRepo, id,
                        [inquiryId |-> inq, sessionToken |-> "token"])
                  /\ out' = [StartOut(calls[c], "ok") EXCEPT
                        !.verificationId = id,
                        !.response = [verificationRecordId |-> id, inquiryId |-> inq],
                        !.audited = Audit(<<AuditEntry("INITIATED", id,
                                       [level |-> calls[c].level,
                                        provider |-> calls[c].provider,
                                        attemptCount |-> calls[c].attempt + 1])>>,
                                       auditOk),
                        !.auditLost = ~auditOk,
                        !.emitted = <<[name |-> "kyc.initiated",
                                       userId |-> calls[c].userId,
                                       level |-> calls[c].level,
                                       verificationId |-> id]>>]
  /\ calls' = [calls EXCEPT ![c] = Idle]
  /\ UNCHANGED <<nextId, now, ticks, parallel, contestRepository, contestCalls>>

\* line 181: the adapter resumeKyc asks for the fresh token
ResumeAdapter(v) == "persona"

ResumeUpdates_Restart(sessionToken) ==
  [sessionToken |-> sessionToken, attemptCount |-> 0]

\* line 184: the columns resumeKyc writes
ResumeUpdates(sessionToken) == [sessionToken |-> sessionToken]

\* resumeKyc(verification) called on a row of the store, as startKyc calls it
\* on the row its lookup returned
ResumeKyc(c, id) ==
  /\ Free(c)
  /\ id \in DOMAIN kycRepo
  /\ calls' = [calls EXCEPT ![c] =
        [Idle EXCEPT !.op = "startKyc", !.pc = "resume",
                     !.userId = kycRepo[id].userId, !.level = kycRepo[id].level,
                     !.verification = Loaded(kycRepo[id])]]
  /\ out' = Quiet
  /\ UNCHANGED <<kycRepo, nextId, sessions, now, ticks, parallel, contestRepository, contestCalls>>

\* lines 175-192: resumeKyc asks the Persona adapter for a fresh token, whatever
\* the provider of the row.  Persona knows only the inquiries it created;
\* providerOk is its answer for those.
StartKycResume(c, providerOk) ==
  /\ calls[c].op = "startKyc" /\ calls[c].pc = "resume"
  /\ LET v == calls[c].verification
     IN IF v.inquiryId = Null
          THEN /\ out' = [StartOut(calls[c], "BadRequest: no inquiry")
                            EXCEPT !.verificationId = v.id]
               /\ kycRepo' = kycRepo
        ELSE IF ~providerOk \/ sessions[v.inquiryId].provider # ResumeAdapter(v)
          THEN /\ out' = [StartOut(calls[c], "ProviderError")
                            EXCEPT !.verificationId = v.id,
                                   !.asked = [adapter |-> ResumeAdapter(v)]]
               /\ kycRepo' = kycRepo
        ELSE /\ kycRepo' = RepoUpdate(kycRepo, v.id, ResumeUpdates("token"))
             /\ out' = [StartOut(calls[c], "ok") EXCEPT
                   !.verificationId = v.id,
                   !.asked = [adapter |-> ResumeAdapter(v)],
                   !.response = [verificationRecordId |-> v.id,
                                 inquiryId |-> v.inquiryId]]
  /\ calls' = [calls EXCEPT ![c] = Idle]
  /\ UNCHANGED <<nextId, sessions, now, ticks, parallel, contestRepository, contestCalls>>

\* ---- webhooks -----------------------------------------------------------
REPLAY_WINDOW_S == 300
SECONDS_PER_DAY == 86400

\* Date.now() / 1000
NowSeconds == now * SECONDS_PER_DAY

\* Ages of a webhook's timestamp, in seconds, around the replay window
HeaderAges == {0, 300, 301}

\* A Persona-Signature header "t=<unix>,v1=<hex>": wellFormed = both parts are
\* present, t = the timestamp (seconds), macOk = v1 is the HMAC-SHA256 of
\* "<t>.<rawBody>" under the webhook secret.
PersonaHeaders ==
  {[wellFormed |-> w, t |-> NowSeconds - a, macOk |-> m] :
     w \in BOOLEAN, a \in HeaderAges, m \in BOOLEAN}

\* One header of each kind: valid, stale with the right HMAC, fresh with a
\* wrong HMAC, malformed
ProbeHeaders ==
  {[wellFormed |-> TRUE, t |-> NowSeconds, macOk |-> TRUE],
   [wellFormed |-> TRUE, t |-> NowSeconds - 301, macOk |-> TRUE],
   [wellFormed |-> TRUE, t |-> NowSeconds, macOk |-> FALSE],
   [wellFormed |-> FALSE, t |-> NowSeconds, macOk |-> FALSE]}

\* The header of a delivery Persona signed just now
ValidHeader == [wellFormed |-> TRUE, t |-> NowSeconds, macOk |-> TRUE]

PersonaVerifyWebhookSignature_MacFirst(h) ==
  /\ h.wellFormed
  /\ h.macOk \/ ~((NowSeconds - h.t) > REPLAY_WINDOW_S)

\* PersonaProvider.verifyWebhookSignature
PersonaVerifyWebhookSignature(h) ==
  /\ h.wellFormed
  /\ ~((NowSeconds - h.t) > REPLAY_WINDOW_S)
  /\ h.macOk

\* An X-SHA2-Signature header: macOk = it is the hex HMAC-SHA256 of rawBody
\* (a header that is not hex of the digest's length makes timingSafeEqual throw)
OnfidoVerifyWebhookSignature_Skip(macOk) == TRUE

OnfidoVerifyWebhookSignature(macOk) == macOk

InvalidSignature_Telling(header) ==
  IF "t" \in DOMAIN header /\ header.wellFormed
     /\ NowSeconds - header.t > REPLAY_WINDOW_S
    THEN "BadRequest: Webhook timestamp too old"
    ELSE "BadRequest: Invalid webhook signature"

\* lines 201-204 and 243-246: the exception of a header that does not verify,
\* whatever made it fail
InvalidSignature(header) == "BadRequest: Invalid webhook signature"

\* Names every object literal inherits from Object.prototype: statusMap[name]
\* is the inherited member, which is not nullish
InheritedKeys == {"constructor"}

\* What statusMap[name] is for an inherited name: a function, no status
InheritedMember == "[Function]"

PersonaRawStatus ==
  {"approved", "declined", "failed", "needs_review", "pending", "created",
   "completed", "expired", "undefined"} \cup InheritedKeys

\* PersonaProvider.mapInquiryToResult: statusMap[attr.status ?? 'pending'] ?? 'pending'
PersonaStatusMap(raw) ==
  CASE raw \in {"approved", "completed"} -> "approved"
    [] raw \in {"declined", "failed"} -> "declined"
    [] raw = "needs_review" -> "needs_review"
    [] raw \in InheritedKeys -> InheritedMember
    [] OTHER -> "pending"

OnfidoRawStatus ==
  {"approved", "declined", "review", "awaiting_input", "processing", "error",
   "abandoned", "undefined"} \cup InheritedKeys

\* OnfidoProvider.mapWorkflowRunToResult: statusMap[run?.status] ?? 'pending'
OnfidoStatusMap(raw) ==
  CASE raw = "approved" -> "approved"
    [] raw \in {"declined", "error"} -> "declined"
    [] raw = "review" -> "needs_review"
    [] raw \in InheritedKeys -> InheritedMember
    [] OTHER -> "pending"

\* attr['declined-reasons'] ?? [] / run.output.reasons: the reasons a provider
\* gives with a decision
DeclinedReasons == {<<>>, <<"blurry", "mismatch">>}

\* declinedReasons.join('; ') of the reason lists above (strings cannot be
\* concatenated here, so the joins are tabulated)
Join(reasons) ==
  CASE reasons = <<>> -> ""
    [] reasons = <<"blurry", "mismatch">> -> "blurry; mismatch"

\* The ids a provider can name in a webhook: its own sessions, or one (0) that
\* this system never stored
ExternalIds(provider) ==
  {i \in 1..Len(sessions) : sessions[i].provider = provider} \cup {0}

ByInquiryId_First(repo, inquiryId) ==
  LET m == {i \in DOMAIN repo : repo[i].inquiryId = inquiryId}
  IN IF m = {}
       THEN IF DOMAIN repo = {} THEN {NoVerification}
            ELSE {Loaded(repo[i]) : i \in DOMAIN repo}
       ELSE {Loaded(repo[i]) : i \in m}

\* findOne({where: {inquiryId}}): the rows it may return, NoVerification = null
ByInquiryId(repo, inquiryId) ==
  LET m == {i \in DOMAIN repo : repo[i].inquiryId = inquiryId}
  IN IF m = {} THEN {NoVerification} ELSE {Loaded(repo[i]) : i \in m}

\* result.declinedReasons is read by the 'declined' case of
\* applyVerificationResult alone: the payloads are told apart only there
ReasonsRead(v, status) ==
  IF v # NoVerification /\ status = "declined" THEN DeclinedReasons ELSE {<<>>}

WebhookOut(op, result, v) ==
  [Quiet EXCEPT !.op = op, !.result = result, !.userId = v.userId,
                !.level = v.level, !.verificationId = v.id]

\* What a webhook request carried: its signature header and, once the payload
\* is parsed, the provider's id of the verification
PersonaAsk(header, inquiryId) == [header |-> header, externalId |-> inquiryId]

\* lines 196-228: signature, parse, WEBHOOK_RECEIVED audit, read of the row.
\* The request is a header, a payload with or without the inquiry object, and
\* in it the inquiry id, Persona's status and the declined reasons.
ProcessPersonaWebhook(c, header, auditOk) ==
  /\ Free(c)
  /\ IF ~PersonaVerifyWebhookSignature(header)
       THEN /\ out' = [WebhookOut("processPersonaWebhook",
                                  InvalidSignature(header), NoVerification)
                         EXCEPT !.asked = PersonaAsk(header, Null)]
            /\ calls' = calls
     ELSE \E hasInquiry \in BOOLEAN :
       IF ~hasInquiry
         THEN /\ out' = [WebhookOut("processPersonaWebhook",
                                    "BadRequest: payload", NoVerification)
                           EXCEPT !.asked = PersonaAsk(header, Null)]
              /\ calls' = calls
       ELSE \E inquiryId \in ExternalIds("persona"), raw \in PersonaRawStatus :
            \E v \in ByInquiryId(kycRepo, inquiryId) :
            \E reasons \in ReasonsRead(v, PersonaStatusMap(raw)) :
              LET received == Audit(<<AuditEntry("WEBHOOK_RECEIVED", Null,
                                                 [provider |-> "persona"])>>,
                                    auditOk)
              IN IF v = NoVerification
                   THEN /\ out' = [WebhookOut("processPersonaWebhook", "ok", v)
                                     EXCEPT !.asked = PersonaAsk(header, inquiryId),
                                            !.audited = received,
                                            !.auditLost = ~auditOk]
                        /\ calls' = calls
                   ELSE /\ out' = [WebhookOut("processPersonaWebhook", "none", v)
                                     EXCEPT !.asked = PersonaAsk(header, inquiryId),
                                            !.audited = received,
                                            !.auditLost = ~auditOk]
                        /\ calls' = [calls EXCEPT ![c] =
                              [Idle EXCEPT !.op = "processPersonaWebhook",
                                           !.pc = "apply", !.verification = v,
                                           !.status = PersonaStatusMap(raw),
                                           !.reasons = reasons]]
  /\ UNCHANGED <<kycRepo, nextId, sessions, now, ticks, parallel, contestRepository, contestCalls>>

\* resource_type of an Onfido payload; "undefined" = the payload has none
OnfidoResourceTypes == {"workflow_run", "check", "undefined"}

OnfidoAsk(macOk, resourceType, workflowRunId) ==
  [macOk |-> macOk, resourceType |-> resourceType, externalId |-> workflowRunId]

OnfidoParses_Any(resourceType) == resourceType # "undefined"

\* OnfidoProvider.parseWebhookPayload lines 130-141: the payload is accepted
OnfidoParses(resourceType) == resourceType = "workflow_run"

\* lines 238-259: signature, parse, read of the row.  The request is a header
\* and a payload with its resource_type, workflow run id, Onfido's status and
\* reasons.
ProcessOnfidoWebhook(c) ==
  /\ Free(c)
  /\ \E macOk \in BOOLEAN :
       IF ~OnfidoVerifyWebhookSignature(macOk)
         THEN /\ out' = [WebhookOut("processOnfidoWebhook",
                                    InvalidSignature([macOk |-> macOk]),
                                    NoVerification)
                           EXCEPT !.asked = OnfidoAsk(macOk, "undefined", Null)]
              /\ calls' = calls
       ELSE \E resourceType \in OnfidoResourceTypes :
         IF ~OnfidoParses(resourceType)
           THEN /\ out' = [WebhookOut("processOnfidoWebhook",
                                      "BadRequest: resource", NoVerification)
                             EXCEPT !.asked = OnfidoAsk(macOk, resourceType, Null)]
                /\ calls' = calls
         ELSE \E workflowRunId \in ExternalIds("onfido"), raw \in OnfidoRawStatus :
              \E v \in ByInquiryId(kycRepo, workflowRunId) :
              \E reasons \in ReasonsRead(v, OnfidoStatusMap(raw)) :
                IF v = NoVerification
                  THEN /\ out' = [WebhookOut("processOnfidoWebhook", "ok", v)
                                    EXCEPT !.asked = OnfidoAsk(macOk, resourceType,
                                                               workflowRunId)]
                       /\ calls' = calls
                  ELSE /\ out' = Quiet
                       /\ calls' = [calls EXCEPT ![c] =
                             [Idle EXCEPT !.op = "processOnfidoWebhook",
                                          !.pc = "apply", !.verification = v,
                                          !.status = OnfidoStatusMap(raw),
                                          !.reasons = reasons]]
  /\ UNCHANGED <<kycRepo, nextId, sessions, now, ticks, parallel, contestRepository, contestCalls>>

ResultUpdates_NoTtl(status, reasons) ==
  CASE status = "approved" ->
         [status |-> "approved", approvedAt |-> now,
          expiresAt |-> now, rejectionReason |-> "null"]
    [] status = "declined" ->
         [status |-> "rejected",
          rejectionReason |-> IF Join(reasons) = "" THEN "Verification declined"
                                                    ELSE Join(reasons)]
    [] status = "needs_review" -> [status |-> "under_review"]
    [] status = "pending" -> [status |-> "pending"]
    [] OTHER -> [status |-> "undefined"]

ResultUpdates_DefaultReason(status, reasons) ==
  CASE status = "approved" ->
         [status |-> "approved", approvedAt |-> now,
          expiresAt |-> now + VERIFICATION_TTL, rejectionReason |-> "null"]
    [] status = "declined" ->
         [status |-> "rejected", rejectionReason |-> "Verification declined"]
    [] status = "needs_review" -> [status |-> "under_review"]
    [] status = "pending" -> [status |-> "pending"]
    [] OTHER -> [status |-> "undefined"]

\* lines 298-319: the columns a canonical result writes
ResultUpdates(status, reasons) ==
  CASE status = "approved" ->
         [status |-> "approved", approvedAt |-> now,
          expiresAt |-> now + VERIFICATION_TTL, rejectionReason |-> "null"]
    [] status = "declined" ->
         [status |-> "rejected",
          rejectionReason |-> IF Join(reasons) = "" THEN "Verification declined"
                                                    ELSE Join(reasons)]
    [] status = "needs_review" -> [status |-> "under_review"]
    [] status = "pending" -> [status |-> "pending"]
    [] OTHER -> [status |-> "undefined"]

\* lines 337-360: the events of a result
ResultEvents(v, updates) ==
  IF updates.status = "approved"
    THEN <<[name |-> "kyc.approved", userId |-> v.userId, level |-> v.level,
            verificationId |-> v.id],
           [name |-> "kyc.level_changed", userId |-> v.userId,
            level |-> v.level, verificationId |-> Null]>>
  ELSE IF updates.status = "rejected"
    THEN <<[name |-> "kyc.rejected", userId |-> v.userId, level |-> v.level,
            verificationId |-> Null]>>
  ELSE <<>>

\* lines 321-360: the events follow the awaited update, so a failed update
\* publishes none
EventsAfterUpdate(v, updates, dbOk) ==
  IF dbOk THEN ResultEvents(v, updates) ELSE <<>>

\* lines 282-361 (and 261-270 for Onfido): applyVerificationResult on the row
\* the handler loaded earlier.  dbOk = the update succeeds; when it fails the
\* handler ends there with the error.
ApplyVerificationResult(c, dbOk, auditOk) ==
  /\ calls[c].op \in {"processPersonaWebhook", "processOnfidoWebhook"}
  /\ calls[c].pc = "apply"
  /\ LET v == calls[c].verification
         updates == ResultUpdates(calls[c].status, calls[c].reasons)
         received == IF calls[c].op = "processOnfidoWebhook"
                       THEN <<AuditEntry("WEBHOOK_RECEIVED", v.id,
                                         [provider |-> "onfido"])>>
                       ELSE <<>>
         changed == <<AuditEntry("STATUS_CHANGED", v.id,
                                 [from |-> v.status, to |-> updates.status])>>
     IN IF dbOk
          THEN /\ kycRepo' = RepoUpdate(kycRepo, v.id, updates)
               /\ out' = [WebhookOut(calls[c].op, "ok", v) EXCEPT
                     !.written = updates,
                     !.audited = Audit(received \o changed, auditOk),
                     !.auditLost = ~auditOk,
                     !.emitted = EventsAfterUpdate(v, updates, dbOk)]
          ELSE /\ kycRepo' = kycRepo
               /\ out' = [WebhookOut(calls[c].op, "error", v) EXCEPT
                     !.audited = Audit(received, auditOk),
                     !.auditLost = (~auditOk /\ received # <<>>),
                     !.emitted = EventsAfterUpdate(v, updates, dbOk)]
  /\ calls' = [calls EXCEPT ![c] = Idle]
  /\ UNCHANGED <<nextId, sessions, now, ticks, parallel, contestRepository, contestCalls>>

\* ---- manualReview -------------------------------------------------------
\* ManualReviewDto.status: @IsEnum(KycStatus) accepts every member of the enum
ManualReviewStatuses == KycStatus

\* lines 370-372: findOneOrFail by primary key
ManualReview(c, verificationId) ==
  /\ Free(c)
  /\ IF verificationId \in DOMAIN kycRepo
       THEN /\ calls' = [calls EXCEPT ![c] =
                 [Idle EXCEPT !.op = "manualReview", !.pc = "review",
                              !.verification = Loaded(kycRepo[verificationId])]]
            /\ out' = Quiet
       ELSE /\ calls' = calls
            /\ out' = [Quiet EXCEPT !.op = "manualReview",
                                    !.result = "EntityNotFound",
                                    !.verificationId = verificationId]
  /\ UNCHANGED <<kycRepo, nextId, sessions, now, ticks, parallel, contestRepository, contestCalls>>

ReviewUpdates_AlwaysExpiry(status, notes) ==
  IF notes # ""
    THEN [status |-> status, approvedAt |-> now,
          expiresAt |-> now + VERIFICATION_TTL, rejectionReason |-> notes]
    ELSE [status |-> status, approvedAt |-> now,
          expiresAt |-> now + VERIFICATION_TTL]

ReviewUpdates_NoExpiry(status, notes) ==
  IF notes # "" THEN [status |-> status, rejectionReason |-> notes]
                ELSE [status |-> status]

\* lines 374-379: the columns a review writes; notes is dto.notes, "" when it
\* is absent or empty
ReviewUpdates(status, notes) ==
  LET decided == IF status = "approved"
                   THEN [status |-> status, approvedAt |-> now,
                         expiresAt |-> now + VERIFICATION_TTL]
                   ELSE [status |-> status]
  IN IF notes # ""
       THEN [f \in DOMAIN decided \cup {"rejectionReason"} |->
               IF f = "rejectionReason" THEN notes ELSE decided[f]]
       ELSE decided

\* lines 381-404: update, audit, event.  dto.status and dto.notes are read here
\* for the first time, so they are drawn here.
ManualReviewApply(c, status, notes, auditOk) ==
  /\ calls[c].op = "manualReview" /\ calls[c].pc = "review"
  /\ LET v == calls[c].verification
     IN /\ kycRepo' = RepoUpdate(kycRepo, v.id, ReviewUpdates(status, notes))
        /\ out' = [WebhookOut("manualReview", "ok", v) EXCEPT
              !.written = ReviewUpdates(status, notes),
              !.audited = Audit(<<AuditEntry("STATUS_CHANGED", v.id,
                              [status |-> status, manual |-> TRUE])>>, auditOk),
              !.auditLost = ~auditOk,
              !.emitted = IF status = "approved"
                            THEN <<[name |-> "kyc.approved", userId |-> v.userId,
                                    level |-> v.level, verificationId |-> v.id]>>
                            ELSE <<>>]
  /\ calls' = [calls EXCEPT ![c] = Idle]
  /\ UNCHANGED <<nextId, sessions, now, ticks, parallel, contestRepository, contestCalls>>

\* ---- getActiveKycLevel, checkMonthlyLimit --------------------------------
KYC_MONTHLY_LIMITS(level) ==
  CASE level = NONE -> 1000
    [] level = BASIC -> 10000
    [] level = ENHANCED -> Null

getActiveKycLevel_AtExpiry(repo, userId) ==
  LET approved == {i \in DOMAIN repo : /\ repo[i].userId = userId
                                       /\ repo[i].status = "approved"}
      found(l) == \E i \in approved :
                    /\ repo[i].level = l
                    /\ (repo[i].expiresAt = Null \/ repo[i].expiresAt >= now)
  IN IF found(ENHANCED) THEN ENHANCED ELSE IF found(BASIC) THEN BASIC ELSE NONE

getActiveKycLevel_NoExpiry(repo, userId) ==
  LET approved == {i \in DOMAIN repo : /\ repo[i].userId = userId
                                       /\ repo[i].status = "approved"}
      found(l) == \E i \in approved : repo[i].level = l
  IN IF found(ENHANCED) THEN ENHANCED ELSE IF found(BASIC) THEN BASIC ELSE NONE

getActiveKycLevel_Lowest(repo, userId) ==
  LET approved == {i \in DOMAIN repo : /\ repo[i].userId = userId
                                       /\ repo[i].status = "approved"}
      found(l) == \E i \in approved :
                    /\ repo[i].level = l
                    /\ (repo[i].expiresAt = Null \/ repo[i].expiresAt > now)
  IN IF found(BASIC) THEN BASIC ELSE IF found(ENHANCED) THEN ENHANCED ELSE NONE

\* lines 417-431: the APPROVED rows of the user by level descending; the level
\* of the first one whose expiresAt is null or after the clock; NONE if none
getActiveKycLevel(repo, userId) ==
  LET approved == {i \in DOMAIN repo : /\ repo[i].userId = userId
                                       /\ repo[i].status = "approved"}
      found(l) == \E i \in approved :
                    /\ repo[i].level = l
                    /\ (repo[i].expiresAt = Null \/ repo[i].expiresAt > now)
  IN IF found(ENHANCED) THEN ENHANCED ELSE IF found(BASIC) THEN BASIC ELSE NONE

\* lines 590-592: the placeholder; the ledger's figure is not asked for
getCurrentMonthUsage(userId, ledgerUsageUsd) == 0

\* The read-only call of the status endpoints
GetActiveKycLevel(c, userId) ==
  /\ Free(c)
  /\ out' = [Quiet EXCEPT !.op = "getActiveKycLevel", !.result = "ok",
                          !.userId = userId,
                          !.level = getActiveKycLevel(kycRepo, userId)]
  /\ UNCHANGED <<kycRepo, nextId, sessions, now, ticks, calls, parallel, contestRepository, contestCalls>>

LimitAuditAction_Checked(isLimitReached) == "LIMIT_CHECKED"

\* lines 451-453: the action of the audit entry
LimitAuditAction(isLimitReached) ==
  IF isLimitReached THEN "LIMIT_EXCEEDED" ELSE "LIMIT_CHECKED"

\* lines 435-479.  ledgerUsageUsd: the user's current-month volume in the
\* trading ledger at the time of the call.
CheckMonthlyLimit(c, userId, requestedAmountUsd, ledgerUsageUsd, auditOk) ==
  /\ Free(c)
  /\ LET level == getActiveKycLevel(kycRepo, userId)
         monthlyLimit == KYC_MONTHLY_LIMITS(level)
         currentMonthUsageUsd == getCurrentMonthUsage(userId, ledgerUsageUsd)
         remaining == IF monthlyLimit = Null THEN Null
                      ELSE monthlyLimit - currentMonthUsageUsd
         isLimitReached ==
           /\ monthlyLimit # Null
           /\ currentMonthUsageUsd + requestedAmountUsd > monthlyLimit
         base == [Quiet EXCEPT
           !.op = "checkMonthlyLimit", !.userId = userId,
           !.asked = [requestedAmountUsd |-> requestedAmountUsd,
                      ledgerUsageUsd |-> ledgerUsageUsd],
           !.audited = Audit(<<AuditEntry(LimitAuditAction(isLimitReached), Null,
                           [level |-> level, monthlyLimit |-> monthlyLimit,
                            currentUsage |-> currentMonthUsageUsd,
                            requested |-> requestedAmountUsd])>>, auditOk),
           !.auditLost = ~auditOk]
     IN out' = IF isLimitReached
                 THEN [base EXCEPT !.result = "Forbidden: monthly limit"]
                 ELSE [base EXCEPT !.result = "ok",
                         !.response = [level |-> level,
                                       monthlyLimitUsd |-> monthlyLimit,
                                       currentMonthUsageUsd |-> currentMonthUsageUsd,
                                       remainingUsd |-> remaining,
                                       isLimitReached |-> FALSE]]
  /\ UNCHANGED <<kycRepo, nextId, sessions, now, ticks, calls, parallel, contestRepository, contestCalls>>

\* ---- KycGuard -----------------------------------------------------------
\* The levels and amounts a route may require; Null = the route has no such
\* decorator
RequiredLevels == {Null, NONE, BASIC, ENHANCED}
RequiredAmounts == {Null, 400, 10001}

LevelSuffices_Verified(activeLevel, requiredLevel) == activeLevel > NONE

\* kyc.guard.ts line 52: activeLevel < requiredLevel refuses
LevelSuffices(activeLevel, requiredLevel) == ~(activeLevel < requiredLevel)

\* kyc.guard.ts lines 31-65: canActivate for a request to a route.
\* authenticated = request.user.id is set (userId is that id); the amount check
\* is checkMonthlyLimit (lines 435-479), with its audit entry.
CanActivate(c, authenticated, userId, requiredLevel, requiredAmount) ==
  /\ Free(c)
  /\ LET activeLevel == getActiveKycLevel(kycRepo, userId)
         monthlyLimit == KYC_MONTHLY_LIMITS(activeLevel)
         currentMonthUsageUsd == getCurrentMonthUsage(userId, 0)
         isLimitReached ==
           /\ monthlyLimit # Null
           /\ currentMonthUsageUsd + requiredAmount > monthlyLimit
         base == [Quiet EXCEPT
           !.op = "canActivate", !.result = "true",
           !.asked = [authenticated |-> authenticated,
                      requiredLevel |-> requiredLevel,
                      requiredAmount |-> requiredAmount]]
         known == [base EXCEPT !.userId = userId, !.level = activeLevel]
     IN out' =
          IF requiredLevel = Null /\ requiredAmount = Null THEN base
          ELSE IF ~authenticated THEN base
          ELSE IF requiredLevel # Null /\ ~LevelSuffices(activeLevel, requiredLevel)
            THEN [known EXCEPT !.result = "Forbidden: level"]
          ELSE IF requiredAmount # Null
            THEN [known EXCEPT
                   !.result = IF isLimitReached THEN "Forbidden: monthly limit"
                                                ELSE "true",
                   !.audited =
                     <<AuditEntry(LimitAuditAction(isLimitReached), Null,
                         [level |-> activeLevel, monthlyLimit |-> monthlyLimit,
                          currentUsage |-> currentMonthUsageUsd,
                          requested |-> requiredAmount])>>]
          ELSE known
  /\ UNCHANGED <<kycRepo, nextId, sessions, now, ticks, calls, parallel, contestRepository, contestCalls>>

\* ---- expireVerifications ------------------------------------------------
ExpiredRows_Late(repo) ==
  {i \in DOMAIN repo : /\ repo[i].status = "approved"
                       /\ repo[i].expiresAt # Null
                       /\ repo[i].expiresAt + VERIFICATION_TTL < now}

ExpiredRows_AnyStatus(repo) ==
  {i \in DOMAIN repo : /\ repo[i].expiresAt # Null
                       /\ repo[i].expiresAt < now}

\* lines 485-490: find({status: APPROVED, expiresAt: LessThan(new Date())})
ExpiredRows(repo) ==
  {i \in DOMAIN repo : /\ repo[i].status = "approved"
                       /\ repo[i].expiresAt # Null
                       /\ repo[i].expiresAt < now}

\* at = the new Date() of the sweep's find
SweepOut(result, at) ==
  [Quiet EXCEPT !.op = "expireVerifications", !.result = result,
                !.asked = [at |-> at]]

\* lines 485-490: the find; an empty result ends the sweep
ExpireVerifications(c) ==
  /\ Free(c)
  /\ LET expired == ExpiredRows(kycRepo)
     IN IF expired = {}
          THEN /\ calls' = calls
               /\ out' = SweepOut("ok", now)
          ELSE /\ calls' = [calls EXCEPT ![c] =
                    [Idle EXCEPT !.op = "expireVerifications", !.pc = "loop",
                                 !.batch = expired, !.at = now]]
               /\ out' = Quiet
  /\ UNCHANGED <<kycRepo, nextId, sessions, now, ticks, parallel, contestRepository, contestCalls>>

\* lines 492-506: one iteration of the loop over the rows found (find returns
\* them in no particular order).  dbOk: kycRepo.update resolved; a rejection
\* leaves the loop and the handler.
ExpireOne(c, id, dbOk, auditOk) ==
  /\ calls[c].op = "expireVerifications" /\ calls[c].pc = "loop"
  /\ id \in calls[c].batch
  /\ IF dbOk
       THEN /\ kycRepo' = RepoUpdate(kycRepo, id, [status |-> "expired"])
            /\ out' = [SweepOut(IF calls[c].batch = {id} THEN "ok" ELSE "none",
                                calls[c].at)
                  EXCEPT
                  !.verificationId = id,
                  !.audited = Audit(<<AuditEntry("EXPIRED", id,
                                                 [manual |-> FALSE])>>, auditOk),
                  !.auditLost = ~auditOk,
                  !.emitted = <<[name |-> "kyc.expired", verificationId |-> id]>>]
            /\ calls' = [calls EXCEPT ![c] =
                  IF calls[c].batch = {id} THEN Idle
                  ELSE [calls[c] EXCEPT !.batch = @ \ {id}]]
       ELSE /\ kycRepo' = kycRepo
            /\ out' = [SweepOut("PersistenceError", calls[c].at)
                          EXCEPT !.verificationId = id]
            /\ calls' = [calls EXCEPT ![c] = Idle]
  /\ UNCHANGED <<nextId, sessions, now, ticks, parallel, contestRepository, contestCalls>>

\* ---- the clock ----------------------------------------------------------
Tick(d) ==
  /\ ticks < MaxTicks
  /\ now' = now + d
  /\ ticks' = ticks + 1
  /\ out' = Quiet
  /\ UNCHANGED <<kycRepo, nextId, sessions, calls, parallel, contestRepository, contestCalls>>

\* ---- contests -----------------------------------------------------------
MaxContests == 2
ContestIds == 1..MaxContests
\* a null winners column
WinnersUnset == <<"null">>
ContestTimes == {0, VERIFICATION_TTL, 2 * VERIFICATION_TTL}
MinSignals == {2}

\* What calculateContestEntries and calculateScore hand to finalizeContest:
\* one entry per provider, in the order of the providers' first signals, with
\* the number of signals submitted and the score under the contest's metric
ContestEntry(provider, signalsSubmitted, score) ==
  [provider |-> provider, signalsSubmitted |-> signalsSubmitted, score |-> score]
EntryLists ==
  { <<>>,
    <<ContestEntry("p1", 1, 9)>>,
    <<ContestEntry("p1", 2, 5), ContestEntry("p2", 2, 9)>>,
    <<ContestEntry("p1", 2, 5), ContestEntry("p2", 3, 5),
      ContestEntry("p3", 2, 7), ContestEntry("p4", 2, 1),
      ContestEntry("p5", 1, 8)>> }

NotEnded_Never(at, endTime) == FALSE

\* contests.service.ts line 97: now < contest.endTime
NotEnded(at, endTime) == at < endTime

\* line 101
AlreadyFinalized(contest) == contest.status = "FINALIZED"

\* line 120: sort((a, b) => b.score - a.score), a stable sort
InsertEntry(e, sorted) ==
  LET k == Cardinality({i \in 1..Len(sorted) : sorted[i].score >= e.score})
  IN SubSeq(sorted, 1, k) \o <<e>> \o SubSeq(sorted, k + 1, Len(sorted))

RECURSIVE SortByScore(_)
SortByScore(entries) ==
  IF entries = <<>> THEN <<>>
  ELSE InsertEntry(entries[Len(entries)],
                   SortByScore(SubSeq(entries, 1, Len(entries) - 1)))

\* lines 106-122: the qualified entries, best score first, the first three
ContestWinners(entries, minSignals) ==
  LET qualified == SelectSeq(entries,
                     LAMBDA e : e.signalsSubmitted >= minSignals)
      sorted == SortByScore(qualified)
      top == SubSeq(sorted, 1, IF Len(sorted) < 3 THEN Len(sorted) ELSE 3)
  IN [i \in 1..Len(top) |-> top[i].provider]

ContestFree(c) ==
  /\ c <= parallel
  /\ contestCalls[c].pc = "idle"
  /\ \A d \in Calls : d < c => contestCalls[d].pc # "idle"

ContestOut(op, result, contestId) ==
  [Quiet EXCEPT !.op = op, !.result = result,
                !.asked = [contestId |-> contestId, at |-> now]]

\* lines 26-46: createContest
CreateContest(startTime, endTime, minSignals) ==
  /\ IF endTime <= startTime
       THEN /\ out' = ContestOut("createContest", "BadRequest: end time", 0)
            /\ UNCHANGED contestRepository
       ELSE /\ Len(contestRepository) < MaxContests
            /\ contestRepository' = Append(contestRepository,
                 [status |-> "ACTIVE", startTime |-> startTime,
                  endTime |-> endTime, minSignals |-> minSignals,
                  winners |-> WinnersUnset])
            /\ out' = ContestOut("createContest", "ok",
                                 Len(contestRepository) + 1)
  /\ UNCHANGED <<kycRepo, nextId, sessions, now, ticks, calls, parallel,
                 contestCalls>>

\* lines 93-105: finalizeContest up to the query for the signals
FinalizeContest(c, contestId) ==
  /\ ContestFree(c)
  /\ IF contestId \notin DOMAIN contestRepository
       THEN /\ out' = ContestOut("finalizeContest", "NotFound", contestId)
            /\ UNCHANGED contestCalls
       ELSE LET contest == contestRepository[contestId]
            IN IF NotEnded(now, contest.endTime)
                 THEN /\ out' = ContestOut("finalizeContest",
                                   "BadRequest: not ended", contestId)
                      /\ UNCHANGED contestCalls
               ELSE IF AlreadyFinalized(contest)
                 THEN /\ out' = ContestOut("finalizeContest",
                                   "BadRequest: already finalized", contestId)
                      /\ UNCHANGED contestCalls
               ELSE /\ contestCalls' = [contestCalls EXCEPT ![c] =
                          [pc |-> "entries", contestId |-> contestId,
                           contest |-> contest, at |-> now]]
                    /\ out' = Quiet
  /\ UNCHANGED <<kycRepo, nextId, sessions, now, ticks, calls, parallel,
                 contestRepository>>

\* lines 105-126: the signals arrive; the winners are set on the loaded entity
FinalizeEntries(c, entries) ==
  /\ contestCalls[c].pc = "entries"
  /\ contestCalls' = [contestCalls EXCEPT
       ![c].pc = "save",
       ![c].contest.status = "FINALIZED",
       ![c].contest.winners =
         ContestWinners(entries, contestCalls[c].contest.minSignals)]
  /\ out' = Quiet
  /\ UNCHANGED <<kycRepo, nextId, sessions, now, ticks, calls, parallel,
                 contestRepository>>

\* lines 111-112 and 127-129: the entity is saved and the winners returned
\* (the prizes of the return value are not followed)
FinalizeSave(c) ==
  /\ contestCalls[c].pc = "save"
  /\ LET call == contestCalls[c]
     IN /\ contestRepository' =
             [contestRepository EXCEPT ![call.contestId] = call.contest]
        /\ out' = [Quiet EXCEPT
             !.op = "finalizeContest", !.result = "ok",
             !.asked = [contestId |-> call.contestId, at |-> call.at],
             !.written = [status |-> call.contest.status,
                          winners |-> call.contest.winners]]
  /\ contestCalls' = [contestCalls EXCEPT ![c] = NoFinalize]
  /\ UNCHANGED <<kycRepo, nextId, sessions, now, ticks, calls, parallel>>

\* Amounts asked for, and monthly volumes the ledger may hold
RequestedAmounts == {400, 500, 10001}
LedgerUsages == {0, 600}

Init ==
  /\ kycRepo = <<>>
  /\ nextId = 1
  /\ sessions = <<>>
  /\ now = 0
  /\ ticks = 0
  /\ calls = [c \in Calls |-> Idle]
  /\ parallel = 1
  /\ contestRepository = <<>>
  /\ contestCalls = [c \in Calls |-> NoFinalize]
  /\ out = Quiet

Next ==
  \/ \E c \in Calls, u \in Users, l \in KycLevel,
          p \in KycProvider \cup {"undefined"} : StartKyc(c, u, l, p)
  \/ \E c \in Calls : StartKycLookup(c)
  \/ \E c \in Calls : StartKycCount(c)
  \/ \E c \in Calls : StartKycSave(c)
  \/ \E c \in Calls, providerOk \in BOOLEAN, dbOk \in BOOLEAN :
        StartKycSession(c, providerOk, dbOk, TRUE)
  \/ \E c \in Calls, providerOk \in BOOLEAN : StartKycResume(c, providerOk)
  \/ \E c \in Calls, header \in ProbeHeaders :
       ProcessPersonaWebhook(c, header, TRUE)
  \/ \E c \in Calls : ProcessOnfidoWebhook(c)
  \/ \E c \in Calls : ApplyVerificationResult(c, TRUE, TRUE)
  \/ \E c \in Calls, id \in Ids : ManualReview(c, id)
  \/ \E c \in Calls, st \in ManualReviewStatuses, notes \in {"", "notes"} :
        ManualReviewApply(c, st, notes, TRUE)
  \/ \E c \in Calls : ExpireVerifications(c)
  \/ \E c \in Calls, id \in Ids, dbOk \in BOOLEAN :
       ExpireOne(c, id, dbOk, TRUE)
  \/ \E d \in {VERIFICATION_TTL} : Tick(d)

\* Every operation; a request is accepted when no handler is in flight.
Spec == Init /\ [][Next]_vars

\* Overlapping startKyc requests: up to MaxCalls handlers in flight.
InitRace ==
  /\ kycRepo = <<>>
  /\ nextId = 1
  /\ sessions = <<>>
  /\ now = 0
  /\ ticks = 0
  /\ calls = [c \in Calls |-> Idle]
  /\ parallel = MaxCalls
  /\ contestRepository = <<>>
  /\ contestCalls = [c \in Calls |-> NoFinalize]
  /\ out = Quiet

NextRace ==
  \/ \E c \in Calls, u \in Users, l \in KycLevel,
          p \in KycProvider \cup {"undefined"} : StartKyc(c, u, l, p)
  \/ \E c \in Calls : StartKycLookup(c)
  \/ \E c \in Calls : StartKycCount(c)
  \/ \E c \in Calls : StartKycSave(c)
  \/ \E c \in Calls, providerOk \in BOOLEAN, dbOk \in BOOLEAN :
        StartKycSession(c, providerOk, dbOk, TRUE)
  \/ \E c \in Calls, providerOk \in BOOLEAN : StartKycResume(c, providerOk)

SpecRace == InitRace /\ [][NextRace]_vars

\* resumeKyc on every row that overlapping startKyc requests produce, rows
\* that have no inquiry id yet included.
NextResume ==
  \/ \E c \in Calls, u \in Users, l \in KycLevel, p \in KycProvider :
       StartKyc(c, u, l, p)
  \/ \E c \in Calls : StartKycLookup(c)
  \/ \E c \in Calls : StartKycCount(c)
  \/ \E c \in Calls : StartKycSave(c)
  \/ \E c \in Calls : StartKycSession(c, TRUE, TRUE, TRUE)
  \/ \E c \in Calls, id \in Ids : ResumeKyc(c, id)
  \/ \E c \in Calls, providerOk \in BOOLEAN : StartKycResume(c, providerOk)

SpecResume == InitRace /\ [][NextResume]_vars

\* The queries of the user's level and limit, on the stores that Persona
\* verifications, manual reviews and the clock produce; handlers serialized.
NextLimit ==
  \/ \E c \in Calls, u \in Users, l \in KycLevel : StartKyc(c, u, l, "persona")
  \/ \E c \in Calls : StartKycLookup(c)
  \/ \E c \in Calls : StartKycCount(c)
  \/ \E c \in Calls : StartKycSave(c)
  \/ \E c \in Calls : StartKycSession(c, TRUE, TRUE, TRUE)
  \/ \E c \in Calls : StartKycResume(c, TRUE)
  \/ \E c \in Calls, header \in ProbeHeaders :
       ProcessPersonaWebhook(c, header, TRUE)
  \/ \E c \in Calls : ApplyVerificationResult(c, TRUE, TRUE)
  \/ \E c \in Calls, id \in Ids : ManualReview(c, id)
  \/ \E c \in Calls, st \in ManualReviewStatuses :
       ManualReviewApply(c, st, "", TRUE)
  \/ \E d \in {VERIFICATION_TTL} : Tick(d)
  \/ \E c \in Calls, u \in Users : GetActiveKycLevel(c, u)
  \/ \E c \in Calls, u \in Users, amount \in RequestedAmounts,
          usage \in LedgerUsages : CheckMonthlyLimit(c, u, amount, usage, TRUE)

SpecLimit == Init /\ [][NextLimit]_vars

\* Requests to guarded routes, on the stores that Persona verifications,
\* manual reviews and the clock produce; handlers serialized.
NextGuard ==
  \/ \E c \in Calls, u \in Users, l \in KycLevel : StartKyc(c, u, l, "persona")
  \/ \E c \in Calls : StartKycLookup(c)
  \/ \E c \in Calls : StartKycCount(c)
  \/ \E c \in Calls : StartKycSave(c)
  \/ \E c \in Calls : StartKycSession(c, TRUE, TRUE, TRUE)
  \/ \E c \in Calls : StartKycResume(c, TRUE)
  \/ \E c \in Calls, header \in ProbeHeaders :
       ProcessPersonaWebhook(c, header, TRUE)
  \/ \E c \in Calls : ApplyVerificationResult(c, TRUE, TRUE)
  \/ \E c \in Calls, id \in Ids : ManualReview(c, id)
  \/ \E c \in Calls, st \in ManualReviewStatuses :
       ManualReviewApply(c, st, "", TRUE)
  \/ \E d \in {VERIFICATION_TTL} : Tick(d)
  \/ \E c \in Calls, authenticated \in BOOLEAN, u \in Users,
          level \in RequiredLevels, amount \in RequiredAmounts :
       CanActivate(c, authenticated, u, level, amount)

SpecGuard == Init /\ [][NextGuard]_vars

\* Contests: up to MaxCalls finalizeContest handlers in flight.
NextContest ==
  \/ \E startTime \in ContestTimes, endTime \in ContestTimes,
          minSignals \in MinSignals :
       CreateContest(startTime, endTime, minSignals)
  \/ \E c \in Calls, contestId \in ContestIds : FinalizeContest(c, contestId)
  \/ \E c \in Calls, entries \in EntryLists : FinalizeEntries(c, entries)
  \/ \E c \in Calls : FinalizeSave(c)
  \/ \E d \in {VERIFICATION_TTL} : Tick(d)

SpecContest == InitRace /\ [][NextContest]_vars

\* Every lifecycle operation with an audit log whose saves may fail and, for
\* provider results, a store whose update may fail; Persona verifications,
\* handlers serialized.
NextFault ==
  \/ \E c \in Calls, u \in Users, l \in KycLevel : StartKyc(c, u, l, "persona")
  \/ \E c \in Calls : StartKycLookup(c)
  \/ \E c \in Calls : StartKycCount(c)
  \/ \E c \in Calls : StartKycSave(c)
  \/ \E c \in Calls, auditOk \in BOOLEAN :
       StartKycSession(c, TRUE, TRUE, auditOk)
  \/ \E c \in Calls : StartKycResume(c, TRUE)
  \/ \E c \in Calls, auditOk \in BOOLEAN :
       ProcessPersonaWebhook(c, ValidHeader, auditOk)
  \/ \E c \in Calls, dbOk \in BOOLEAN, auditOk \in BOOLEAN :
       ApplyVerificationResult(c, dbOk, auditOk)
  \/ \E c \in Calls, id \in Ids : ManualReview(c, id)
  \/ \E c \in Calls, st \in ManualReviewStatuses, auditOk \in BOOLEAN :
       ManualReviewApply(c, st, "", auditOk)
  \/ \E c \in Calls, u \in Users, amount \in RequestedAmounts,
          auditOk \in BOOLEAN : CheckMonthlyLimit(c, u, amount, 0, auditOk)
  \/ \E d \in {VERIFICATION_TTL} : Tick(d)
  \/ \E c \in Calls : ExpireVerifications(c)
  \/ \E c \in Calls, id \in Ids, auditOk \in BOOLEAN :
       ExpireOne(c, id, TRUE, auditOk)

SpecFault == Init /\ [][NextFault]_vars

\* The store after one startKyc for level BASIC with Persona has completed
\* (lines 112-163): one PENDING row that holds its inquiry id
StartedRow ==
  RepoUpdate(RepoSave(<<>>, NewVerification(1, 1, BASIC, "persona", 1)), 1,
             [inquiryId |-> 1, sessionToken |-> "token"])

\* Overlapping handlers on one row: up to MaxCalls of Persona deliveries,
\* manual reviews and sweeps in flight at once, each step of one interleaved
\* with the steps of the other and with the clock.
InitOverlap ==
  /\ kycRepo = StartedRow
  /\ nextId = 2
  /\ sessions = <<[userId |-> 1, level |-> BASIC, provider |-> "persona",
                   attemptCount |-> 1]>>
  /\ now = 0
  /\ ticks = 0
  /\ calls = [c \in Calls |-> Idle]
  /\ parallel = MaxCalls
  /\ contestRepository = <<>>
  /\ contestCalls = [c \in Calls |-> NoFinalize]
  /\ out = Quiet

NextOverlap ==
  \/ \E c \in Calls : ProcessPersonaWebhook(c, ValidHeader, TRUE)
  \/ \E c \in Calls : ApplyVerificationResult(c, TRUE, TRUE)
  \/ \E c \in Calls, id \in Ids : ManualReview(c, id)
  \/ \E c \in Calls, st \in ManualReviewStatuses :
       ManualReviewApply(c, st, "", TRUE)
  \/ \E d \in {VERIFICATION_TTL} : Tick(d)
  \/ \E c \in Calls : ExpireVerifications(c)
  \/ \E c \in Calls, id \in Ids : ExpireOne(c, id, TRUE, TRUE)

SpecOverlap == InitOverlap /\ [][NextOverlap]_vars

\* Webhook deliveries of both providers, with every kind of signature header and
\* payload, on the stores that started verifications produce; handlers
\* serialized.
NextWebhook ==
  \/ \E c \in Calls, u \in Users, l \in KycLevel, p \in KycProvider :
       StartKyc(c, u, l, p)
  \/ \E c \in Calls : StartKycLookup(c)
  \/ \E c \in Calls : StartKycCount(c)
  \/ \E c \in Calls : StartKycSave(c)
  \/ \E c \in Calls : StartKycSession(c, TRUE, TRUE, TRUE)
  \/ \E c \in Calls : StartKycResume(c, TRUE)
  \/ \E c \in Calls, header \in PersonaHeaders :
       ProcessPersonaWebhook(c, header, TRUE)
  \/ \E c \in Calls : ProcessOnfidoWebhook(c)
  \/ \E c \in Calls : ApplyVerificationResult(c, TRUE, TRUE)

SpecWebhook == Init /\ [][NextWebhook]_vars


\* Persona verifications, the clock and the nightly sweep, with a database
\* that accepts every write; handlers serialized, and a request to start a
\* verification admitted while the store has room for its row.
NextExpiry ==
  \/ \E c \in Calls, u \in Users, l \in KycLevel :
       nextId <= MaxRecords /\ StartKyc(c, u, l, "persona")
  \/ \E c \in Calls : StartKycLookup(c)
  \/ \E c \in Calls : StartKycCount(c)
  \/ \E c \in Calls : StartKycSave(c)
  \/ \E c \in Calls : StartKycSession(c, TRUE, TRUE, TRUE)
  \/ \E c \in Calls : StartKycResume(c, TRUE)
  \/ \E c \in Calls : ProcessPersonaWebhook(c, ValidHeader, TRUE)
  \/ \E c \in Calls : ApplyVerificationResult(c, TRUE, TRUE)
  \/ \E d \in {VERIFICATION_TTL} : Tick(d)
  \/ \E c \in Calls : ExpireVerifications(c)
  \/ \E c \in Calls, id \in Ids : ExpireOne(c, id, TRUE, TRUE)

\* A handler that has started runs to its end (the event loop resumes every
\* awaited call), and the sweep is started again and again: line 483, @Cron
\* EVERY_DAY_AT_MIDNIGHT.
FairExpiry ==
  \A c \in Calls :
    /\ WF_vars(StartKycLookup(c))
    /\ WF_vars(StartKycCount(c))
    /\ WF_vars(StartKycSave(c))
    /\ WF_vars(StartKycSession(c, TRUE, TRUE, TRUE))
    /\ WF_vars(StartKycResume(c, TRUE))
    /\ WF_vars(ApplyVerificationResult(c, TRUE, TRUE))
    /\ WF_vars(\E id \in Ids : ExpireOne(c, id, TRUE, TRUE))
    /\ SF_vars(ExpireVerifications(c))

SpecExpiry == Init /\ [][NextExpiry]_vars /\ FairExpiry

\* ==== claims ==============================================================
Webhooks == {"processPersonaWebhook", "processOnfidoWebhook"}

\* An approved row of the level that is not past its expiry at the clock
FreshApproved(userId, level) ==
  \E i \in DOMAIN kycRepo :
    /\ kycRepo[i].userId = userId /\ kycRepo[i].level = level
    /\ kycRepo[i].status = "approved"
    /\ (kycRepo[i].expiresAt = Null \/ kycRepo[i].expiresAt > now)

\* The step is the first step of a startKyc(userId, level) request
StartKycAccepted(userId, level) ==
  \E c \in Calls : /\ calls[c].op = "idle" /\ calls'[c].op = "startKyc"
                   /\ calls'[c].userId = userId /\ calls'[c].level = level

StartKycRefused(userId, level) ==
  /\ calls' = calls /\ out'.op = "startKyc"
  /\ out'.userId = userId /\ out'.level = level

\* C1: startKyc for ENHANCED passes the prerequisite check only when the user
\* has an APPROVED BASIC row whose expiresAt is null or in the future; in every
\* other case it fails with the prerequisite error and creates no row and no
\* provider session.
C1_PrerequisiteEnforced ==
  [][\A u \in Users :
       /\ StartKycAccepted(u, ENHANCED) => FreshApproved(u, BASIC)
       /\ (StartKycRefused(u, ENHANCED) /\ ~FreshApproved(u, BASIC)) =>
            /\ out'.result = "BadRequest: prerequisite"
            /\ UNCHANGED <<kycRepo, nextId, sessions>>]_vars

\* C2: once a row is REJECTED or EXPIRED, no provider result and no expiry
\* sweep changes its status.
C2_TerminalAbsorbing ==
  [][\A i \in (DOMAIN kycRepo) \cap (DOMAIN kycRepo') :
       (/\ kycRepo[i].status \in {"rejected", "expired"}
        /\ out'.op \in Webhooks \cup {"expireVerifications"})
       => kycRepo'[i].status = kycRepo[i].status]_vars

ProviderTransitions ==
  ({"pending"} \X {"approved", "rejected", "under_review", "requires_action"})
    \cup ({"under_review"} \X {"approved", "rejected"})

\* C3: every status change made by a provider result is PENDING to one of
\* APPROVED, REJECTED, UNDER_REVIEW, REQUIRES_ACTION, or UNDER_REVIEW to one of
\* APPROVED, REJECTED.
C3_ProviderTransitionsOnly ==
  [][\A i \in (DOMAIN kycRepo) \cap (DOMAIN kycRepo') :
       (out'.op \in Webhooks /\ kycRepo'[i].status # kycRepo[i].status)
       => <<kycRepo[i].status, kycRepo'[i].status>> \in ProviderTransitions]_vars

\* C4: a row becomes EXPIRED only by the expiry sweep, only from APPROVED and
\* only when now >= expiresAt.
C4_ExpiredOnlyBySweep ==
  [][\A i \in (DOMAIN kycRepo) \cap (DOMAIN kycRepo') :
       (kycRepo'[i].status = "expired" /\ kycRepo[i].status # "expired")
       => /\ out'.op = "expireVerifications"
          /\ kycRepo[i].status = "approved"
          /\ kycRepo[i].expiresAt # Null
          /\ now >= kycRepo[i].expiresAt]_vars

\* C5: after an accepted manual review the stored status of the reviewed row
\* is APPROVED or REJECTED.
C5_ManualReviewApprovesOrRejects ==
  (out.op = "manualReview" /\ out.result = "ok"
     /\ out.verificationId \in DOMAIN kycRepo)
  => kycRepo[out.verificationId].status \in {"approved", "rejected"}

NoneInFlight == \A c \in Calls : calls[c].op = "idle"

\* C6: after overlapping startKyc calls for one (userId, level) have returned,
\* there is exactly one PENDING row for it (and so one provider session).
C6_CreateRaceOnePending ==
  NoneInFlight =>
    \A u \in Users, l \in KycLevel :
      Cardinality(Find(kycRepo, u, l, "pending")) <= 1

\* C7: an "approved" provider result applied to a row that is already
\* APPROVED leaves its status, approvedAt and expiresAt as they were.
C7_ApprovalIdempotent ==
  [][\A c \in Calls :
       LET id == calls[c].verification.id
       IN (/\ calls[c].op \in Webhooks /\ calls[c].pc = "apply"
           /\ calls[c].status = "approved"
           /\ calls'[c].op = "idle"
           /\ id \in DOMAIN kycRepo
           /\ kycRepo[id].status = "approved")
          => /\ kycRepo'[id].status = kycRepo[id].status
             /\ kycRepo'[id].approvedAt = kycRepo[id].approvedAt
             /\ kycRepo'[id].expiresAt = kycRepo[id].expiresAt]_vars

\* C8: startKyc deletes the row it created if and only if the provider session
\* call failed; then an error is returned, and no audit entry or event is
\* produced; no other row is ever deleted.
C8_RollbackIffProviderFailed ==
  [][/\ \A c \in Calls :
          (calls[c].op = "startKyc" /\ calls[c].pc = "session"
             /\ calls'[c].op = "idle")
          => LET providerFailed == sessions' = sessions
                 deleted == calls[c].created \notin DOMAIN kycRepo'
             IN /\ deleted <=> providerFailed
                /\ providerFailed =>
                     /\ out'.result \notin {"ok", "none"}
                     /\ out'.audited = <<>> /\ out'.emitted = <<>>
     /\ \A i \in (DOMAIN kycRepo) \ (DOMAIN kycRepo') :
          \E c \in Calls : calls[c].pc = "session" /\ calls[c].created = i
    ]_vars

\* C9: when a PENDING row with an inquiry id exists for (userId, level), the
\* lookup of startKyc leads to resume, never to the creation of a new row.
C9_PendingIsResumed ==
  [][\A c \in Calls :
       (/\ calls[c].op = "startKyc" /\ calls[c].pc = "lookup"
        /\ calls'[c].pc # "lookup"
        /\ \E i \in Find(kycRepo, calls[c].userId, calls[c].level, "pending") :
             kycRepo[i].inquiryId # Null)
       => calls'[c].pc = "resume"]_vars

\* C10: no row has level NONE: startKyc for level NONE is refused with the
\* level-0 error before any row is created or any provider is called, and no
\* step changes the level of a row.
C10_NoLevelNone ==
  [][/\ \A i \in DOMAIN kycRepo' : kycRepo'[i].level \in {BASIC, ENHANCED}
     /\ \A i \in (DOMAIN kycRepo) \cap (DOMAIN kycRepo') :
          kycRepo'[i].level = kycRepo[i].level
     /\ \A u \in Users :
          /\ ~StartKycAccepted(u, NONE)
          /\ StartKycRefused(u, NONE) =>
               /\ out'.result = "BadRequest: level 0"
               /\ UNCHANGED <<kycRepo, nextId, sessions>>]_vars

\* A level-0 request has just been refused while rows exist
C10_Witness ==
  /\ out.op = "startKyc" /\ out.level = NONE
  /\ out.result = "BadRequest: level 0"
  /\ kycRepo # <<>>

\* C11: a row created by startKyc carries attemptCount = the number of rows of
\* its (userId, level) that exist immediately before its creation, plus 1; no
\* step changes the attemptCount of a row; so no two rows of one
\* (userId, level) carry the same attemptCount.
C11_AttemptCount ==
  [][/\ \A i \in (DOMAIN kycRepo') \ (DOMAIN kycRepo) :
          kycRepo'[i].attemptCount =
            getAttemptCount(kycRepo, kycRepo'[i].userId, kycRepo'[i].level) + 1
     /\ \A i \in (DOMAIN kycRepo) \cap (DOMAIN kycRepo') :
          kycRepo'[i].attemptCount = kycRepo[i].attemptCount
     /\ \A i, j \in DOMAIN kycRepo' :
          (/\ i # j
           /\ kycRepo'[i].userId = kycRepo'[j].userId
           /\ kycRepo'[i].level = kycRepo'[j].level)
          => kycRepo'[i].attemptCount # kycRepo'[j].attemptCount]_vars

\* The step applies the provider result held by handler c to a stored row
Applies(c) ==
  /\ calls[c].op \in Webhooks /\ calls[c].pc = "apply"
  /\ calls'[c].op = "idle"
  /\ calls[c].verification.id \in DOMAIN kycRepo

\* C12: applying a provider result stores the status mapped from the canonical
\* status: approved gives APPROVED with approvedAt = now and expiresAt = now +
\* 365 days; declined gives REJECTED with rejectionReason = the declined
\* reasons joined, or the default text when there are none; needs_review gives
\* UNDER_REVIEW; pending gives PENDING, which leaves a PENDING row as it was.
C12_ResultMapping ==
  [][\A c \in Calls : Applies(c) =>
       LET id == calls[c].verification.id
           status == calls[c].status
           reasons == calls[c].reasons
       IN /\ status = "approved" =>
               /\ kycRepo'[id].status = "approved"
               /\ kycRepo'[id].approvedAt = now
               /\ kycRepo'[id].expiresAt = now + 365
          /\ status = "declined" =>
               /\ kycRepo'[id].status = "rejected"
               /\ reasons = <<>> =>
                    out'.written.rejectionReason = "Verification declined"
               /\ reasons = <<"blurry", "mismatch">> =>
                    out'.written.rejectionReason = "blurry; mismatch"
          /\ status = "needs_review" => kycRepo'[id].status = "under_review"
          /\ status = "pending" =>
               /\ kycRepo'[id].status = "pending"
               /\ kycRepo[id].status = "pending" => kycRepo'[id] = kycRepo[id]]_vars

\* A declined result with two reasons has just been applied
C12_Witness ==
  /\ out.op \in Webhooks /\ out.result = "ok"
  /\ out.written.status = "rejected"
  /\ out.written.rejectionReason = "blurry; mismatch"
  /\ out.verificationId \in DOMAIN kycRepo
  /\ kycRepo[out.verificationId].status = "rejected"

\* C13: a row's expiresAt is non-null if and only if the row has had status
\* APPROVED at some point, and stays set whatever the row's later status.
\* Step by step: a new row has neither; afterwards expiresAt is set exactly
\* when it was set before or the row is APPROVED after the step.
C13_ExpiresAtIffEverApproved ==
  [][\A i \in DOMAIN kycRepo' :
       IF i \in DOMAIN kycRepo
         THEN (kycRepo'[i].expiresAt # Null) <=>
                (kycRepo[i].expiresAt # Null \/ kycRepo'[i].status = "approved")
         ELSE /\ kycRepo'[i].expiresAt = Null
              /\ kycRepo'[i].status # "approved"]_vars

\* The sweep has just run: a row that was approved is EXPIRED now and keeps
\* its expiresAt, and another row has never been approved
C13_Witness ==
  /\ out.op = "expireVerifications"
  /\ \E i \in DOMAIN kycRepo :
       /\ kycRepo[i].status = "expired" /\ kycRepo[i].expiresAt # Null
       /\ kycRepo[i].approvedAt # Null
  /\ \E j \in DOMAIN kycRepo :
       kycRepo[j].status # "approved" /\ kycRepo[j].expiresAt = Null

\* C14: approvedAt and expiresAt of a row are both null or both set, and when
\* set expiresAt = approvedAt + 365 days, whether the approval came from a
\* provider result or from manual review.
C14_ApprovedAtExpiresAtTogether ==
  \A i \in DOMAIN kycRepo :
    \/ kycRepo[i].approvedAt = Null /\ kycRepo[i].expiresAt = Null
    \/ /\ kycRepo[i].approvedAt # Null /\ kycRepo[i].expiresAt # Null
       /\ kycRepo[i].expiresAt = kycRepo[i].approvedAt + 365

\* A manual review at day 365 has just approved a row, and another row has
\* never been approved
C14_Witness ==
  /\ out.op = "manualReview" /\ out.written.status = "approved"
  /\ out.verificationId \in DOMAIN kycRepo
  /\ kycRepo[out.verificationId].approvedAt = 365
  /\ kycRepo[out.verificationId].expiresAt = 730
  /\ \E j \in DOMAIN kycRepo : kycRepo[j].approvedAt = Null

\* The levels of the user's rows that are APPROVED with expiresAt null or
\* strictly after the clock
QualifyingLevels(userId) ==
  {kycRepo[i].level : i \in {j \in DOMAIN kycRepo :
      /\ kycRepo[j].userId = userId
      /\ kycRepo[j].status = "approved"
      /\ (kycRepo[j].expiresAt = Null \/ kycRepo[j].expiresAt > now)}}

HighestQualifying(userId) ==
  IF QualifyingLevels(userId) = {} THEN NONE
  ELSE CHOOSE l \in QualifyingLevels(userId) :
         \A m \in QualifyingLevels(userId) : m <= l

\* C15: getActiveKycLevel(user) returns the highest level among the user's
\* rows that are APPROVED with expiresAt null or strictly in the future, and
\* NONE when no row qualifies (the level checkMonthlyLimit works with is the
\* same); rows in any other status never contribute.
C15_ActiveLevel ==
  /\ out.op = "getActiveKycLevel" => out.level = HighestQualifying(out.userId)
  /\ out.op = "checkMonthlyLimit" =>
       out.audited[1].details.level = HighestQualifying(out.userId)

\* The query has just answered BASIC for a user whose ENHANCED row is APPROVED
\* but past its expiry
C15_Witness ==
  /\ out.op = "getActiveKycLevel" /\ out.level = BASIC
  /\ \E i \in DOMAIN kycRepo :
       /\ kycRepo[i].userId = out.userId /\ kycRepo[i].level = ENHANCED
       /\ kycRepo[i].status = "approved" /\ kycRepo[i].expiresAt <= now

\* The step moves row i from another status to APPROVED
BecomesApproved(i) ==
  /\ i \in DOMAIN kycRepo /\ i \in DOMAIN kycRepo'
  /\ kycRepo[i].status # "approved" /\ kycRepo'[i].status = "approved"

\* C16 as stated: immediately after a row of a user makes an APPROVED
\* transition, the user's active level equals that row's level.
C16_ActiveLevelIsApprovedLevel ==
  [][\A i \in Ids : BecomesApproved(i) =>
       getActiveKycLevel(kycRepo', kycRepo'[i].userId) = kycRepo'[i].level]_vars

\* C16 amended: immediately after a row of a user makes an APPROVED
\* transition, the user's active level is at least that row's level: it is the
\* highest level among the user's fresh APPROVED rows, the new one included.
C16_ActiveLevelAtLeastApprovedLevel ==
  [][\A i \in Ids : BecomesApproved(i) =>
       /\ getActiveKycLevel(kycRepo', kycRepo'[i].userId) >= kycRepo'[i].level
       /\ \E j \in DOMAIN kycRepo' :
            /\ kycRepo'[j].userId = kycRepo'[i].userId
            /\ kycRepo'[j].status = "approved"
            /\ kycRepo'[j].expiresAt > now
            /\ kycRepo'[j].level =
                 getActiveKycLevel(kycRepo', kycRepo'[i].userId)]_vars

\* A provider result has just moved a BASIC row to APPROVED for a user whose
\* active level is ENHANCED
C16_Witness ==
  /\ out.op \in Webhooks /\ out.written.status = "approved"
  /\ \E k \in DOMAIN out.audited :
       /\ out.audited[k].action = "STATUS_CHANGED"
       /\ out.audited[k].details.from # "approved"
  /\ out.verificationId \in DOMAIN kycRepo
  /\ kycRepo[out.verificationId].level = BASIC
  /\ kycRepo[out.verificationId].status = "approved"
  /\ getActiveKycLevel(kycRepo, out.userId) = ENHANCED

\* The monthly limit of the statement: NONE 1000, BASIC 10000, ENHANCED none
StatedLimit(level) ==
  IF level = NONE THEN 1000 ELSE IF level = BASIC THEN 10000 ELSE Null

\* C17: checkMonthlyLimit(user, requested) fails with the limit error exactly
\* when the limit of the user's active level is non-null and usage + requested
\* > limit, usage being the user's current-month volume held by the ledger.
C17_LimitDecision ==
  out.op = "checkMonthlyLimit" =>
    LET limit == StatedLimit(HighestQualifying(out.userId))
    IN (out.result = "Forbidden: monthly limit") <=>
         (/\ limit # Null
          /\ out.asked.ledgerUsageUsd + out.asked.requestedAmountUsd > limit)

\* C18: every call of checkMonthlyLimit writes exactly one audit entry, in the
\* step that reports the outcome: LIMIT_EXCEEDED when the call fails with the
\* limit error, LIMIT_CHECKED when it returns normally; there is no other
\* outcome.
C18_LimitAudited ==
  out.op = "checkMonthlyLimit" =>
    /\ Len(out.audited) = 1
    /\ out.result \in {"ok", "Forbidden: monthly limit"}
    /\ out.result = "Forbidden: monthly limit" =>
         out.audited[1].action = "LIMIT_EXCEEDED"
    /\ out.result = "ok" => out.audited[1].action = "LIMIT_CHECKED"

\* A call has just failed with the limit error for a user at level BASIC
C18_Witness ==
  /\ out.op = "checkMonthlyLimit"
  /\ out.result = "Forbidden: monthly limit"
  /\ out.audited[1].details.level = BASIC
  /\ out.audited[1].details.monthlyLimit = 10000

\* The rows the statement has a sweep at the clock select
DueRows ==
  {i \in DOMAIN kycRepo : /\ kycRepo[i].status = "approved"
                          /\ kycRepo[i].expiresAt # Null
                          /\ kycRepo[i].expiresAt <= now}

\* C19: a sweep run at time now selects every APPROVED row with expiresAt <=
\* now (expiresAt = now included) and no other row; each row it processes
\* becomes EXPIRED with one EXPIRED audit entry and one EXPIRED event.
C19_SweepSelection ==
  [][/\ \A c \in Calls :
          (calls[c].op = "idle" /\ calls'[c].op = "expireVerifications")
          => calls'[c].batch = DueRows
     /\ (out'.op = "expireVerifications" /\ calls' = calls) => DueRows = {}
     /\ \A i \in DOMAIN kycRepo :
          (out'.op = "expireVerifications" /\ kycRepo'[i] # kycRepo[i])
          => /\ i \in DueRows
             /\ kycRepo'[i].status = "expired"
             /\ Len(out'.audited) = 1 /\ out'.audited[1].action = "EXPIRED"
             /\ out'.audited[1].verificationId = i
             /\ Len(out'.emitted) = 1 /\ out'.emitted[1].name = "kyc.expired"
    ]_vars

\* C20: when persisting the EXPIRED transition fails for one row of a sweep
\* batch, the sweep goes on with the remaining rows of the batch, and the rows
\* already processed stay EXPIRED.
C20_SweepFaultTolerance ==
  [][\A c \in Calls :
       (/\ calls[c].op = "expireVerifications" /\ calls[c].pc = "loop"
        /\ out'.result = "PersistenceError"
        /\ calls[c].batch # {out'.verificationId})
       => /\ calls'[c].op = "expireVerifications"
          /\ calls'[c].batch = calls[c].batch \ {out'.verificationId}
          /\ kycRepo' = kycRepo]_vars

\* C21: a sweep that starts right after a completed sweep, with no operation
\* and no passing of time since the first one read the store, finds no row:
\* it changes no record, writes no audit entry and publishes no event.
C21_SweepIdempotent ==
  [][(/\ out.op = "expireVerifications" /\ out.result = "ok"
      /\ out.asked.at = now)
     => /\ \A c \in Calls :
             calls[c].op = "idle" => calls'[c].op # "expireVerifications"
        /\ out'.op = "expireVerifications"
             => /\ kycRepo' = kycRepo
                /\ out'.audited = <<>> /\ out'.emitted = <<>>
                /\ out'.result = "ok"]_vars

\* A sweep has just found nothing in a store that holds a row swept earlier
C21_Witness ==
  /\ out.op = "expireVerifications" /\ out.result = "ok"
  /\ out.verificationId = 0 /\ out.audited = <<>>
  /\ \E i \in DOMAIN kycRepo :
       /\ kycRepo[i].status = "expired"
       /\ kycRepo[i].expiresAt < now

\* The row is APPROVED and its expiresAt has passed
Due(i) ==
  /\ i \in DOMAIN kycRepo
  /\ kycRepo[i].status = "approved"
  /\ kycRepo[i].expiresAt # Null /\ kycRepo[i].expiresAt < now

\* A provider result has just been written to the row
ResultWritten(i) ==
  /\ out.op \in Webhooks /\ out.verificationId = i
  /\ out.written # NoUpdates

\* The store without its EXPIRED rows
WithoutExpired(repo) ==
  [i \in {j \in DOMAIN repo : repo[j].status # "expired"} |-> repo[i]]

PersonaReceived ==
  out.op = "processPersonaWebhook" /\ "header" \in DOMAIN out.asked

OnfidoReceived ==
  out.op = "processOnfidoWebhook" /\ "macOk" \in DOMAIN out.asked

\* The ways a Persona-Signature header fails
Malformed(h) == ~h.wellFormed
Stale(h) == h.wellFormed /\ NowSeconds - h.t > 300
WrongHmac(h) == h.wellFormed /\ ~h.macOk
FailsSignature(h) == Malformed(h) \/ Stale(h) \/ WrongHmac(h)

\* The answer to a delivery that was refused for its signature
GenericRejection(o) ==
  /\ o.result = "BadRequest: Invalid webhook signature"
  /\ o.audited = <<>> /\ o.emitted = <<>>
  /\ o.written = NoUpdates /\ o.verificationId = 0

\* C23: a delivery of either provider whose signature does not verify is
\* refused with the generic error and has no effect: no record changes, no
\* audit entry is written, no event is published, nothing is left in flight.
C23_BadSignatureNoEffect ==
  [][(\/ PersonaReceived' /\ FailsSignature(out'.asked.header)
      \/ OnfidoReceived' /\ ~out'.asked.macOk)
     => /\ GenericRejection(out')
        /\ UNCHANGED <<kycRepo, sessions, nextId, calls>>]_vars

\* An Onfido delivery with a wrong HMAC has been refused while a verification
\* of that provider was waiting for its result
C23_Witness ==
  /\ OnfidoReceived /\ ~out.asked.macOk
  /\ out.result = "BadRequest: Invalid webhook signature"
  /\ \E i \in DOMAIN kycRepo :
       kycRepo[i].provider = "onfido" /\ kycRepo[i].status = "pending"

\* C24: a Persona delivery whose timestamp is more than 300 seconds older than
\* the clock is refused whether or not its v1 is the right HMAC, and one that
\* is exactly 300 seconds old is not refused for its age.
C24_ReplayWindow ==
  [][PersonaReceived' =>
       LET h == out'.asked.header
       IN /\ (h.wellFormed /\ NowSeconds - h.t > 300)
               => /\ out'.result = "BadRequest: Invalid webhook signature"
                  /\ UNCHANGED <<kycRepo, calls>>
          /\ (h.wellFormed /\ NowSeconds - h.t = 300 /\ h.macOk)
               => out'.result # "BadRequest: Invalid webhook signature"]_vars

\* A delivery 301 seconds old with the right HMAC has been refused
C24_Witness ==
  /\ PersonaReceived
  /\ out.asked.header.wellFormed /\ out.asked.header.macOk
  /\ NowSeconds - out.asked.header.t = 301
  /\ out.result = "BadRequest: Invalid webhook signature"
  /\ kycRepo # <<>>

\* C25: Persona deliveries that fail for a stale timestamp, for a wrong HMAC
\* or for a malformed header get one and the same answer and leave the same
\* state: but for the header itself, nothing a caller can observe tells the
\* three apart.
C25_IndistinguishableRejection ==
  [][(PersonaReceived' /\ FailsSignature(out'.asked.header))
     => /\ [out' EXCEPT !.asked = NoAsk]
             = WebhookOut("processPersonaWebhook",
                          "BadRequest: Invalid webhook signature",
                          NoVerification)
        /\ UNCHANGED <<kycRepo, sessions, nextId, now, ticks, calls>>]_vars

\* A delivery with a malformed header has been refused
C25_Witness ==
  /\ PersonaReceived /\ Malformed(out.asked.header)
  /\ out.result = "BadRequest: Invalid webhook signature"
  /\ kycRepo # <<>>

\* The delivery just received carried an id that no row has
UnknownId ==
  /\ PersonaReceived \/ OnfidoReceived
  /\ out.asked.externalId # Null
  /\ \A i \in DOMAIN kycRepo : kycRepo[i].inquiryId # out.asked.externalId

\* C26: a validly signed delivery whose id matches no row returns normally,
\* changes no record and publishes no event, and no STATUS_CHANGED entry is
\* written.
C26_UnknownIdIgnored ==
  [][(/\ PersonaReceived' \/ OnfidoReceived'
      /\ out'.asked.externalId # Null
      /\ \A i \in DOMAIN kycRepo :
           kycRepo[i].inquiryId # out'.asked.externalId)
     => /\ out'.result = "ok"
        /\ kycRepo' = kycRepo /\ calls' = calls
        /\ out'.emitted = <<>>
        /\ \A k \in 1..Len(out'.audited) :
             out'.audited[k].action = "WEBHOOK_RECEIVED"]_vars

\* A validly signed Persona delivery for an id no row has returned normally
\* while a row was waiting for its result
C26_Witness ==
  /\ PersonaReceived /\ UnknownId
  /\ PersonaVerifyWebhookSignature(out.asked.header)
  /\ out.result = "ok"
  /\ \E i \in DOMAIN kycRepo : kycRepo[i].status = "pending"

\* C27: a validly signed Onfido delivery whose resource_type is not
\* workflow_run is refused with a validation error; no record changes, no
\* audit entry is written and no event is published.
C27_OnfidoResourceType ==
  [][(/\ OnfidoReceived' /\ out'.asked.macOk
      /\ out'.asked.resourceType # "workflow_run")
     => /\ out'.result = "BadRequest: resource"
        /\ out'.audited = <<>> /\ out'.emitted = <<>>
        /\ UNCHANGED <<kycRepo, sessions, nextId, calls>>]_vars

\* A validly signed Onfido delivery about a check has been refused
C27_Witness ==
  /\ OnfidoReceived /\ out.asked.macOk
  /\ out.asked.resourceType = "check"
  /\ out.result = "BadRequest: resource"
  /\ \E i \in DOMAIN kycRepo : kycRepo[i].provider = "onfido"

\* The statuses Onfido's table names
OnfidoTable ==
  {"approved", "declined", "review", "awaiting_input", "processing", "error"}

\* C28: the provider status mappings are total into approved, declined,
\* needs_review, pending: Onfido's processing and awaiting_input give pending,
\* error and declined give declined, review gives needs_review, approved
\* gives approved; whatever status a delivery carries, the result the handler
\* goes on to apply is one of the four (pending for a status outside the
\* provider's table).
C28_StatusMappingTotal ==
  /\ \A raw \in OnfidoTable :
       OnfidoStatusMap(raw) =
         CASE raw \in {"processing", "awaiting_input"} -> "pending"
           [] raw \in {"error", "declined"} -> "declined"
           [] raw = "review" -> "needs_review"
           [] raw = "approved" -> "approved"
  /\ \A c \in Calls :
       calls[c].pc = "apply" => calls[c].status \in CanonicalStatus

\* C29: when the save of an audit entry fails, the operation ends as it does
\* when the save succeeds.  For every step whose audit entry was lost:
\* startKyc answers with the handles of the row it keeps and publishes
\* kyc.initiated; a provider result is written and its events are published;
\* a manual review is written and an approval published; the limit check
\* answers by the limit alone; the sweep expires the row, publishes
\* kyc.expired and goes on with its batch; a delivery is looked up as usual.
C29_AuditBestEffort ==
  [][out'.auditLost =>
       /\ out'.audited = <<>>
       /\ \A c \in Calls :
            /\ (/\ calls[c].op = "startKyc" /\ calls[c].pc = "session"
                /\ calls'[c].op = "idle")
               => LET id == calls[c].created
                  IN /\ out'.result = "ok"
                     /\ id \in DOMAIN kycRepo'
                     /\ kycRepo'[id].status = "pending"
                     /\ kycRepo'[id].inquiryId # Null
                     /\ out'.response.verificationRecordId = id
                     /\ Len(out'.emitted) = 1
                     /\ out'.emitted[1].name = "kyc.initiated"
            /\ Applies(c)
               => LET v == calls[c].verification
                      updates == ResultUpdates(calls[c].status, calls[c].reasons)
                  IN /\ out'.result = "ok"
                     /\ kycRepo' = RepoUpdate(kycRepo, v.id, updates)
                     /\ out'.emitted = ResultEvents(v, updates)
            /\ (/\ calls[c].op = "manualReview" /\ calls[c].pc = "review"
                /\ calls'[c].op = "idle")
               => /\ out'.result = "ok"
                  /\ out'.written.status \in ManualReviewStatuses
                  /\ kycRepo' = RepoUpdate(kycRepo, calls[c].verification.id,
                                           out'.written)
                  /\ Len(out'.emitted)
                       = IF out'.written.status = "approved" THEN 1 ELSE 0
            /\ (calls[c].op = "expireVerifications" /\ calls[c].pc = "loop")
               => LET id == out'.verificationId
                  IN /\ id \in calls[c].batch
                     /\ kycRepo' = RepoUpdate(kycRepo, id, [status |-> "expired"])
                     /\ Len(out'.emitted) = 1
                     /\ out'.emitted[1].name = "kyc.expired"
                     /\ calls'[c] = IF calls[c].batch = {id} THEN Idle
                                    ELSE [calls[c] EXCEPT !.batch = @ \ {id}]
       /\ out'.op = "checkMonthlyLimit"
          => LET limit ==
                   KYC_MONTHLY_LIMITS(getActiveKycLevel(kycRepo, out'.userId))
             IN /\ kycRepo' = kycRepo
                /\ out'.result =
                     IF limit # Null /\ out'.asked.requestedAmountUsd > limit
                       THEN "Forbidden: monthly limit" ELSE "ok"
       /\ PersonaReceived'
          => /\ kycRepo' = kycRepo
             /\ (\E i \in DOMAIN kycRepo :
                   kycRepo[i].inquiryId = out'.asked.externalId)
                <=> (\E c \in Calls : calls'[c].pc = "apply")]_vars

\* startKyc has just answered with the handles of a row it kept, its
\* INITIATED audit entry lost
C29_Witness ==
  /\ out.auditLost /\ out.audited = <<>>
  /\ out.op = "startKyc" /\ out.result = "ok"
  /\ out.verificationId \in DOMAIN kycRepo
  /\ kycRepo[out.verificationId].status = "pending"
  /\ kycRepo[out.verificationId].inquiryId = out.response.inquiryId

\* The STATUS_CHANGED entries among those of a step
StatusChanged(entries) ==
  SelectSeq(entries, LAMBDA e : e.action = "STATUS_CHANGED")

EventNames(events) == [k \in 1..Len(events) |-> events[k].name]

\* The side effects of applying a result whose status is one of statuses
ResultSideEffects(statuses) ==
  \A c \in Calls : (Applies(c) /\ calls[c].status \in statuses) =>
       LET id == calls[c].verification.id
           changed == StatusChanged(out'.audited)
       IN /\ (out'.result = "ok" /\ ~out'.auditLost)
               => /\ Len(changed) = 1
                  /\ changed[1].details.from = kycRepo[id].status
                  /\ changed[1].details.to = kycRepo'[id].status
          /\ out'.result = "ok"
               => /\ out'.written.status = "approved"
                    => EventNames(out'.emitted)
                         = <<"kyc.approved", "kyc.level_changed">>
                  /\ out'.written.status = "rejected"
                    => EventNames(out'.emitted) = <<"kyc.rejected">>
                  /\ out'.written.status \notin {"approved", "rejected"}
                    => out'.emitted = <<>>
          /\ out'.emitted # <<>>
               => /\ out'.result = "ok"
                  /\ kycRepo'[id].status = out'.written.status
          /\ out'.result # "ok"
               => /\ kycRepo' = kycRepo /\ out'.emitted = <<>>
                  /\ StatusChanged(out'.audited) = <<>>

\* C30: each application of a provider result writes one STATUS_CHANGED audit
\* entry that records the status the row had and the status it has now; a
\* result that makes the row APPROVED publishes exactly kyc.approved and
\* kyc.level_changed, one that makes it REJECTED exactly kyc.rejected, any
\* other publishes nothing; and events are published only once the update is
\* in the store, none when the update fails.
C30_ResultSideEffects ==
  [][ResultSideEffects(CanonicalStatus \cup {InheritedMember})]_vars

\* The step completes a manual review in slot c
Reviews(c) ==
  /\ calls[c].op = "manualReview" /\ calls[c].pc = "review"
  /\ calls'[c].op = "idle"
  /\ calls[c].verification.id \in DOMAIN kycRepo

\* C31: a manual review sets approvedAt and expiresAt exactly when the status
\* asked for is APPROVED, writes one STATUS_CHANGED audit entry tagged manual,
\* publishes kyc.approved exactly when the status asked for is APPROVED; and a
\* review of an id no row has fails and changes no row, audit entry or event.
C31_ManualReviewEffects ==
  [][/\ \A c \in Calls : Reviews(c) =>
          LET id == calls[c].verification.id
              asked == out'.written.status
          IN /\ kycRepo'[id].status = asked
             /\ IF asked = "approved"
                  THEN /\ kycRepo'[id].approvedAt = now
                       /\ kycRepo'[id].expiresAt = now + 365
                  ELSE /\ kycRepo'[id].approvedAt = kycRepo[id].approvedAt
                       /\ kycRepo'[id].expiresAt = kycRepo[id].expiresAt
                       /\ DOMAIN out'.written \subseteq {"status", "rejectionReason"}
             /\ Len(out'.audited) = 1
             /\ out'.audited[1].action = "STATUS_CHANGED"
             /\ out'.audited[1].verificationId = id
             /\ out'.audited[1].details.manual
             /\ EventNames(out'.emitted)
                  = IF asked = "approved" THEN <<"kyc.approved">> ELSE <<>>
     /\ (out'.op = "manualReview" /\ out'.verificationId \notin DOMAIN kycRepo)
        => /\ out'.result = "EntityNotFound"
           /\ out'.audited = <<>> /\ out'.emitted = <<>>
           /\ UNCHANGED <<kycRepo, sessions, nextId, calls>>]_vars

\* A manual review has just rejected a row that had never been approved
C31_Witness ==
  /\ out.op = "manualReview" /\ out.result = "ok"
  /\ out.written.status = "rejected"
  /\ out.emitted = <<>> /\ Len(out.audited) = 1
  /\ out.verificationId \in DOMAIN kycRepo
  /\ kycRepo[out.verificationId].status = "rejected"
  /\ kycRepo[out.verificationId].approvedAt = Null
  /\ kycRepo[out.verificationId].expiresAt = Null

\* The row status a canonical terminal result asks for
TargetStatus(status) == IF status = "approved" THEN "approved" ELSE "rejected"

\* C32: of two deliveries that carry the same terminal result for one row and
\* have both read the row before either wrote, the one that writes second
\* finds the row already at its target status: it ends without error and
\* leaves the row as the first one's write made it, so that the final row is
\* the row after a single delivery.
C32_DuplicateDelivery ==
  [][\A c \in Calls :
       LET id == calls[c].verification.id
       IN (/\ Applies(c)
           /\ calls[c].status \in {"approved", "declined"}
           /\ calls[c].verification.status # TargetStatus(calls[c].status)
           /\ kycRepo[id].status = TargetStatus(calls[c].status))
          => /\ out'.result = "ok"
             /\ kycRepo'[id] = kycRepo[id]]_vars

\* The step is the sweep's write of EXPIRED to row id
SweepWrites(c, id) ==
  /\ calls[c].op = "expireVerifications" /\ calls[c].pc = "loop"
  /\ out'.op = "expireVerifications" /\ out'.verificationId = id
  /\ id \in DOMAIN kycRepo
  /\ kycRepo'[id].status = "expired"

\* C33: whatever the interleaving of the sweep with provider results and
\* manual reviews, the sweep writes EXPIRED only to a row that is still
\* APPROVED with its expiresAt passed at the time of the write: a row approved
\* again after the sweep selected it is not overwritten, and no row becomes
\* EXPIRED with an expiresAt later than the time of the write.
C33_SweepNoLostUpdate ==
  [][\A c \in Calls, id \in Ids :
       SweepWrites(c, id)
       => /\ kycRepo[id].status = "approved"
          /\ kycRepo[id].expiresAt < now
          /\ kycRepo'[id].expiresAt <= now]_vars

\* C34: under every interleaving, the STATUS_CHANGED audit entry of a
\* canonical provider result has as from the status the row held in the store
\* just before the update and as to the status the update stored.
C34_AuditChain ==
  [][\A c \in Calls :
       (Applies(c) /\ calls[c].status \in CanonicalStatus)
       => LET id == calls[c].verification.id
              changed == StatusChanged(out'.audited)
          IN /\ Len(changed) = 1
             /\ changed[1].details.from = kycRepo[id].status
             /\ changed[1].details.to = kycRepo'[id].status]_vars

\* C35: getActiveKycLevel and checkMonthlyLimit change no row; an APPROVED row
\* whose expiresAt is at or before the clock does not count for the level they
\* work with, nor for the limit decision, while the row itself stays APPROVED
\* in the store.
C35_StatusLag ==
  [][out'.op \in {"getActiveKycLevel", "checkMonthlyLimit"} =>
       LET level == HighestQualifying(out'.userId)
           limit == KYC_MONTHLY_LIMITS(level)
       IN /\ UNCHANGED <<kycRepo, sessions, nextId, now, calls>>
          /\ out'.op = "getActiveKycLevel" => out'.level = level
          /\ out'.op = "checkMonthlyLimit"
               => /\ out'.audited[1].details.level = level
                  /\ out'.audited[1].details.monthlyLimit = limit
                  /\ out'.result = "ok" => out'.response.level = level]_vars

\* The limit check has just refused, at the limit of level NONE, a user whose
\* BASIC row is still APPROVED in the store with its expiresAt equal to the
\* clock
C35_Witness ==
  /\ out.op = "checkMonthlyLimit" /\ out.result = "Forbidden: monthly limit"
  /\ out.audited[1].details.level = NONE
  /\ out.audited[1].details.monthlyLimit = 1000
  /\ \E i \in DOMAIN kycRepo :
       /\ kycRepo[i].userId = out.userId /\ kycRepo[i].level = BASIC
       /\ kycRepo[i].status = "approved" /\ kycRepo[i].expiresAt = now

\* The step ends a resumeKyc in slot c
Resumes(c) ==
  /\ calls[c].op = "startKyc" /\ calls[c].pc = "resume"
  /\ calls'[c].op = "idle"

\* C36: resumeKyc writes nothing but the session token of the row it was given:
\* every other column of every row stays, no row is created or deleted, no
\* audit entry is written and no event published; given a row without an
\* inquiry id it fails with the validation error and changes nothing.
C36_ResumeFrame ==
  [][\A c \in Calls : Resumes(c) =>
       LET v == calls[c].verification
       IN /\ DOMAIN kycRepo' = DOMAIN kycRepo
          /\ nextId' = nextId /\ sessions' = sessions
          /\ \A i \in DOMAIN kycRepo :
               /\ \A f \in DOMAIN kycRepo[i] \ {"sessionToken"} :
                    kycRepo'[i][f] = kycRepo[i][f]
               /\ i # v.id => kycRepo'[i] = kycRepo[i]
          /\ out'.audited = <<>> /\ out'.emitted = <<>>
          /\ v.inquiryId = Null
               => /\ out'.result = "BadRequest: no inquiry"
                  /\ kycRepo' = kycRepo
          /\ out'.result = "ok" => v.inquiryId # Null]_vars

\* resumeKyc has just answered with the handles of a PENDING row that holds an
\* inquiry id
C36_Witness ==
  /\ out.op = "startKyc" /\ out.result = "ok"
  /\ "adapter" \in DOMAIN out.asked
  /\ out.verificationId \in DOMAIN kycRepo
  /\ kycRepo[out.verificationId].status = "pending"
  /\ kycRepo[out.verificationId].inquiryId = out.response.inquiryId
  /\ kycRepo[out.verificationId].attemptCount = 1

\* C37: resumeKyc asks the adapter of the provider stored on the row: a row
\* created with Onfido is not resumed through the Persona adapter.
C37_ResumeAdapter ==
  [][\A c \in Calls :
       (Resumes(c) /\ "adapter" \in DOMAIN out'.asked
        /\ calls[c].verification.id \in DOMAIN kycRepo)
       => out'.asked.adapter = kycRepo[calls[c].verification.id].provider]_vars

\* C38: for a route that requires level L and an authenticated user, the
\* guard lets the request through only if the user's active level (the highest
\* level among APPROVED rows not past their expiresAt) is at least L, and
\* refuses with the forbidden error when it is lower; it changes no row.
C38_TierGate ==
  [][(/\ out'.op = "canActivate" /\ out'.asked.authenticated
      /\ out'.asked.requiredLevel # Null)
     => LET active == HighestQualifying(out'.userId)
        IN /\ out'.result = "true" => active >= out'.asked.requiredLevel
           /\ active < out'.asked.requiredLevel
                => out'.result = "Forbidden: level"
           /\ out'.result \in {"true", "Forbidden: level",
                               "Forbidden: monthly limit"}
           /\ kycRepo' = kycRepo]_vars

\* The guard has just refused a route that requires BASIC to a user whose
\* BASIC row is APPROVED in the store but at its expiresAt
C38_Witness ==
  /\ out.op = "canActivate" /\ out.asked.authenticated
  /\ out.asked.requiredLevel = BASIC
  /\ out.result = "Forbidden: level" /\ out.level = NONE
  /\ \E i \in DOMAIN kycRepo :
       /\ kycRepo[i].userId = out.userId /\ kycRepo[i].level = BASIC
       /\ kycRepo[i].status = "approved" /\ kycRepo[i].expiresAt <= now

\* A finalizeContest step on contest id that ends the call
Finalizes(id) ==
  /\ out'.op = "finalizeContest"
  /\ out'.asked.contestId = id

\* A finalizeContest call on contest id passes its checks in this step
Admitted(id) ==
  \E c \in Calls :
    /\ contestCalls[c].pc = "idle"
    /\ contestCalls'[c].pc = "entries"
    /\ contestCalls'[c].contestId = id

\* C39: a contest is finalized at most once: finalizeContest on a contest that
\* is already FINALIZED fails with the bad-request error and leaves the row as
\* it is, and whatever the interleaving of the calls, a contest's winners are
\* written only while the contest is not FINALIZED, so by one call only.
C39_FinalizedOnce ==
  [][\A id \in DOMAIN contestRepository :
       /\ contestRepository[id].status = "FINALIZED"
            => /\ ~Admitted(id)
               /\ (Finalizes(id) /\ out'.result # "ok")
                    => /\ out'.result = "BadRequest: already finalized"
                       /\ contestRepository' = contestRepository
       /\ contestRepository'[id] # contestRepository[id]
            => contestRepository[id].status = "ACTIVE"]_vars

\* C40: a contest becomes FINALIZED only in a finalizeContest call that was
\* made at or after the contest's endTime; a call made before endTime fails
\* with the bad-request error and leaves the contest ACTIVE, winners unset.
C40_FinalizedAfterEnd ==
  [][\A id \in DOMAIN contestRepository :
       /\ (contestRepository'[id].status = "FINALIZED"
             /\ contestRepository[id].status # "FINALIZED")
            => /\ Finalizes(id) /\ out'.result = "ok"
               /\ out'.asked.at >= contestRepository[id].endTime
       /\ (Finalizes(id) /\ out'.asked.at = now
             /\ now < contestRepository[id].endTime)
            => /\ out'.result = "BadRequest: not ended"
               /\ contestRepository' = contestRepository
               /\ contestCalls' = contestCalls
               /\ contestRepository[id].status = "ACTIVE"
               /\ contestRepository[id].winners = WinnersUnset]_vars

\* A call made before endTime has been refused and, the clock having reached
\* endTime exactly, a later call has finalized the contest with its winners
C40_Witness ==
  /\ out.op = "finalizeContest" /\ out.result = "ok"
  /\ out.asked.contestId \in DOMAIN contestRepository
  /\ LET contest == contestRepository[out.asked.contestId]
     IN /\ contest.status = "FINALIZED"
        /\ contest.endTime = now /\ out.asked.at = now
        /\ contest.winners = <<"p3", "p1", "p2">>

====
